---- MODULE Spec2Model ----
(***************************************************************************)
(* Model of the vinyl-collection front end (src/js/ui.js, which holds the   *)
(* sources of ui.js, animations.js, main.js and api.js one after another). *)
(*                                                                         *)
(* The specifications of the module:                                       *)
(*   Spec       the application coordinator of main.js together with the   *)
(*              REST backend and the requests in flight. In one behaviour  *)
(*              the user works with one part of the page (uso), chosen in  *)
(*              the initial state, and makes up to MaxGestos gestures;     *)
(*   SpecBusca  the pure combination step of api.buscarVinis, applied to   *)
(*              every pair of sub-query outcomes within the bounds;        *)
(*   SpecFetch  fetchAPI applied to every outcome of fetch;                *)
(*   SpecMarkup the markup of a card, of the detail panel and of the stats *)
(*              panel generated for a record;                              *)
(*   SpecComparar  api.compararPrensagens applied to two fetched records;  *)
(*   SpecImagem the cover image of the form: file input, preview, payload; *)
(*   SpecNotif  the notification elements and their timers.                *)
(*                                                                         *)
(* A record is represented by its id; its pressing colour and media are    *)
(* functions of the id. A request in flight fails when it is delivered     *)
(* before the backend has answered it.                                     *)
(***************************************************************************)
EXTENDS Integers, Sequences, FiniteSets, Bags, TLC

\* ---------------------------------------------------------------- bounds
\* Largest record identifier the backend hands out.
MaxId == 2
\* Largest number of gateway operations outstanding at the same time.
MaxInFlight == 2
\* Longest sub-query result of the combined search in SpecBusca.
MaxLen == 2
\* Number of distinct contents a record with a given id may have in SpecBusca.
MaxVer == 2
\* Number of user gestures (inputs, clicks, submissions) in one behaviour.
MaxGestos == 3
\* Files the user selects in the file input of the form.
MaxSelecoes == 2
\* Notifications shown one after another.
MaxNotifs == 3

Ids == 1..MaxId

VARIABLES
    \* backend
    db,                 \* ids of the records stored by the backend
    nextId,             \* next id the backend assigns on create
    net,                \* bag of gateway operations in flight
    \* main.js
    appState,           \* [currentVinis, isSearching]
    searchTimeout,      \* pending debounce timers, each with its termo
    searchInput,        \* value of #search-input
    recusado,           \* the user has declined a confirm() dialog
    \* document
    grid,               \* cards of #vinis-grid, as the ids of their records
    loading,            \* #loading is displayed
    noResults,          \* #no-results is displayed
    miniStats,          \* texts of the mini statistics above the grid
    statsContainer,     \* content of #stats-container
    notification,       \* the .notification element, or NoNotification
    modais,             \* modals carrying the class "active"
    detalhesContent,    \* content of #detalhes-content
    form,               \* #form-vinil: [campos, editId, preview]
    submitDisabled,     \* the submit button of the form is disabled
    submitLabel,        \* innerHTML of the submit button
    originalBtnText,    \* the label kept by the handleFormSubmit last started
    filterCor,          \* value of #filter-cor
    filterMidia,        \* value of #filter-midia
    filterCorOptions,   \* options appended to #filter-cor
    comparacao,         \* content of #comparacao-output
    \* user
    uso,                \* the part of the page the user works with
    gestos,             \* number of gestures the user has made
    \* history
    removidos,          \* ids deleted with success whose reload has rendered
    statsAnterior,      \* stats rendered by the last successful loadStats
    \* api.buscarVinis applied to given sub-query outcomes (SpecBusca)
    resultadosArtista, resultadosAlbum, vinisUnicos, buscaPc,
    \* fetchAPI applied to a given outcome of fetch (SpecFetch)
    resposta,           \* what fetch(url) produced: no response, or a response
    retorno,            \* what fetchAPI returned or threw
    fetchPc,
    \* the markup generated for a given record (SpecMarkup)
    vinil,              \* the record, its fields as texts
    markup,             \* the interpolations of the generated markup
    markupPc,
    \* api.compararPrensagens applied to two fetched records (SpecComparar)
    vinilA, vinilB,     \* what the two getVinilById calls returned
    resultado,          \* what api.compararPrensagens returned
    compararPc,
    \* the cover image of the form (SpecImagem)
    fileInput,          \* the file held by #form-capa, or NenhumArquivo
    preview,            \* #preview-img: [src, displayed]
    leitores,           \* files whose FileReader has not yet loaded
    capaEnviada,        \* capa of the last payload built by handleFormSubmit
    selecoes,           \* number of files selected so far
    \* the notification elements and their timers (SpecNotif)
    notifs,             \* the elements created so far, in order of creation
    body                \* the elements attached to document.body, by index

varsFetch == <<resposta, retorno, fetchPc>>
varsMarkup == <<vinil, markup, markupPc>>
varsComparar == <<vinilA, vinilB, resultado, compararPc>>
varsImagem == <<fileInput, preview, leitores, capaEnviada, selecoes>>
varsNotif == <<notifs, body>>
varsPuro == <<varsMarkup, varsComparar, varsImagem, varsNotif>>
varsBusca == <<resultadosArtista, resultadosAlbum, vinisUnicos, buscaPc, varsFetch,
               varsPuro>>
varsServer == <<db, nextId>>
varsLista == <<grid, loading, noResults, miniStats>>
varsForm == <<form, submitDisabled, submitLabel, originalBtnText>>
varsFiltro == <<filterCor, filterMidia, filterCorOptions>>
varsHist == <<removidos, statsAnterior, uso, searchInput, recusado>>
vars == <<db, nextId, net, appState, searchTimeout, grid, loading, noResults,
          miniStats,
          statsContainer, notification, modais, detalhesContent, form,
          submitDisabled, submitLabel, originalBtnText, filterCor, filterMidia, filterCorOptions, comparacao,
          removidos, statsAnterior, uso, searchInput, recusado, gestos,
          resultadosArtista, resultadosAlbum, vinisUnicos, buscaPc,
          resposta, retorno, fetchPc, varsPuro>>

\* ------------------------------------------------------- sequence helpers
Range(s) == {s[i] : i \in DOMAIN s}

RECURSIVE SeqFromSet(_)
\* The elements of a finite set of numbers in increasing order.
SeqFromSet(S) ==
    IF S = {} THEN <<>>
    ELSE LET m == CHOOSE x \in S : \A y \in S : x <= y
         IN  <<m>> \o SeqFromSet(S \ {m})

SeqsUpTo(S, n) == UNION {[1..k -> S] : k \in 0..n}

\* ============================================================ api.buscarVinis
\* A record as the combined search sees it: its id and the rest of its content.
BuscaRecords == [id : Ids, conteudo : 1..MaxVer]

\* Outcome of one sub-query promise: fulfilled with an array, or rejected.
Fulfilled(arr) == [ok |-> TRUE, dados |-> arr]
Rejected == [ok |-> FALSE, dados |-> <<>>]
SubQueryOutcomes == {Fulfilled(a) : a \in SeqsUpTo(BuscaRecords, MaxLen)} \cup {Rejected}

\* Mutant: the .catch is missing, the rejection reaches Promise.all.
CatchAusente(outcome) == outcome

\* buscarPorArtista(termo).catch(() => []) : a rejection becomes an empty array.
CatchVazio(outcome) == IF outcome.ok THEN outcome ELSE Fulfilled(<<>>)

\* Mutant: an existing key keeps its old value (first occurrence wins).
MapSetPrimeiro(m, v) ==
    IF \E i \in DOMAIN m : m[i].id = v.id THEN m ELSE Append(m, v)

\* Mutant: every entry is appended, no key is looked up.
MapSetSemChave(m, v) == Append(m, v)

\* Map.prototype.set: an existing key keeps its position and takes the new
\* value, a new key is appended.
MapSet(m, v) ==
    IF \E i \in DOMAIN m : m[i].id = v.id
    THEN [i \in DOMAIN m |-> IF m[i].id = v.id THEN v ELSE m[i]]
    ELSE Append(m, v)

RECURSIVE MapFrom(_, _)
\* new Map(entries): the entries are set one after another, left to right.
MapFrom(m, entries) ==
    IF entries = <<>> THEN m
    ELSE MapFrom(MapSet(m, Head(entries)), Tail(entries))

\* Array.from(new Map(todosResultados.map(v => [v.id, v])).values())
VinisUnicos(todosResultados) == MapFrom(<<>>, todosResultados)

\* api.buscarVinis: Promise.all over the two caught sub-queries, concatenation,
\* deduplication; a rejection of Promise.all is caught and yields [].
ApiBuscarVinis(outA, outB) ==
    LET a == CatchVazio(outA)
        b == CatchVazio(outB)
    IN  IF a.ok /\ b.ok
        THEN [falhou |-> FALSE, vinis |-> VinisUnicos(a.dados \o b.dados)]
        ELSE [falhou |-> FALSE, vinis |-> <<>>]

\* ================================================================ fetchAPI
\* Status codes of the responses considered.
Statuses == {200, 201, 204, 299, 300, 400, 404, 500, 503}
\* The message field of a JSON object: absent (<<>>) or present (<<text>>).
Messages == {<<>>, <<"">>, <<"Vinil nao encontrado">>}
\* The body of a response as response.json() sees it: not parseable, the
\* value null, an array, or an object with or without a message field.
Corpos ==
    {[json |-> j, message |-> <<>>] : j \in {"invalido", "nulo", "lista"}}
    \cup {[json |-> "objeto", message |-> m] : m \in Messages}
\* What await fetch(url, ...) produces: a rejection (the transport failed) or
\* a response.
Respostas ==
    {[rede |-> FALSE, status |-> 0, corpo |-> [json |-> "invalido", message |-> <<>>]]}
    \cup [rede : {TRUE}, status : Statuses, corpo : Corpos]

\* What fetchAPI produces: a thrown Error with its message, or a value.
Erro(msg) == [tipo |-> "erro", msg |-> msg, valor |-> [json |-> "invalido", message |-> <<>>]]
Valor(v) == [tipo |-> "valor", msg |-> <<>>, valor |-> v]
ObjetoVazio == [json |-> "objeto", message |-> <<>>]
MsgRede == <<"Failed to fetch">>
MsgTypeError == <<"Cannot read properties of null (reading 'message')">>
MsgSyntaxError == <<"Unexpected end of JSON input">>
ErroHTTP(status) == <<"Erro HTTP: ", status>>

\* response.ok
ResponseOk(status) == status \in 200..299

\* Mutant: no status is taken for an empty success.
SemConteudoNunca(status) == FALSE

\* response.status === 204
SemConteudo(status) == status = 204

\* await response.json().catch(() => ({})) of a non-success response.
ErrorData(corpo) == IF corpo.json = "invalido" THEN ObjetoVazio ELSE corpo

\* fetchAPI(endpoint, options), from what fetch produced for it; the catch
\* logs and throws the error again.
FetchAPI(r) ==
    IF ~r.rede THEN Erro(MsgRede)
    ELSE IF ~ResponseOk(r.status)
    THEN LET errorData == ErrorData(r.corpo)
         IN  IF errorData.json = "nulo" THEN Erro(MsgTypeError)
             ELSE IF errorData.message # <<>> /\ errorData.message # <<"">>
             THEN Erro(errorData.message)
             ELSE Erro(ErroHTTP(r.status))
    ELSE IF SemConteudo(r.status) THEN Valor(ObjetoVazio)
    ELSE IF r.corpo.json = "invalido" THEN Erro(MsgSyntaxError)
    ELSE Valor(r.corpo)

\* ================================================= generated markup (ui.js)
\* A text is a sequence of characters; the empty text stands for every falsy
\* value of a field (null, undefined, '').
Caracteres == {"a", "A", " ", "<", ">", "&", "\""}

\* div.textContent = text; div.innerHTML: the serialisation of a text node
\* replaces &, < and > and leaves quotes as they are.
EscapeChar(c) ==
    CASE c = "&" -> "&amp;"
      [] c = "<" -> "&lt;"
      [] c = ">" -> "&gt;"
      [] OTHER -> c

\* escapeHTML(text)
EscapeHTML(text) ==
    IF text = <<>> THEN <<>> ELSE [i \in DOMAIN text |-> EscapeChar(text[i])]

\* encodeURIComponent(text): letters are kept, the rest is percent-encoded.
EncodeURIComponent(text) ==
    [i \in DOMAIN text |->
        CASE text[i] = " " -> "%20"
          [] text[i] = "<" -> "%3C"
          [] text[i] = ">" -> "%3E"
          [] text[i] = "&" -> "%26"
          [] text[i] = "\"" -> "%22"
          [] OTHER -> text[i]]

\* text.substring(0, n)
Substring(text, n) == SubSeq(text, 1, IF Len(text) < n THEN Len(text) ELSE n)

\* text.toLowerCase()
ToLowerCase(text) == [i \in DOMAIN text |-> IF text[i] = "A" THEN "a" ELSE text[i]]

\* text.replace(' ', '-'): the first blank only.
ReplaceBlank(text) ==
    [i \in DOMAIN text |->
        IF text[i] = " " /\ \A k \in 1..(i - 1) : text[k] # " " THEN "-" ELSE text[i]]

\* JSON.stringify of a string: quoted, with the quotes inside escaped.
JsonString(text) ==
    <<"\"">> \o [i \in DOMAIN text |-> IF text[i] = "\"" THEN "\\\"" ELSE text[i]]
             \o <<"\"">>

\* value || other
Ou(value, other) == IF value = <<>> THEN other ELSE value
NA == <<"N", "/", "A">>
LP == <<"L", "P">>

\* One interpolation ${...} of a template assigned to innerHTML: where it
\* stands (the text of an element, or a double-quoted attribute value) and the
\* characters it contributes.
Seg(slot, ctx, html) == [slot |-> slot, ctx |-> ctx, html |-> html]

\* The inline SVG placeholder, with the album text inside.
SvgPlaceholder(album, n) ==
    <<"data:image/svg+xml,">> \o EncodeURIComponent(Substring(album, n))

\* imgUrl of createVinilCard.
ImgUrl(v) ==
    IF v.capa # <<>>
    THEN IF v.capa[1] = "/uploads"
         THEN <<"http://localhost:5000">> \o v.capa
         ELSE v.capa
    ELSE SvgPlaceholder(v.album, 15)

\* createVinilCard(vinil): the interpolations of card.innerHTML.
CreateVinilCard(v) ==
    << Seg("img.src", "atributo", ImgUrl(v)),
       Seg("img.alt", "atributo", v.album),
       Seg("badge.class", "atributo", ReplaceBlank(ToLowerCase(v.cor_prensagem))),
       Seg("badge", "texto", EscapeHTML(v.cor_prensagem)),
       Seg("title", "texto", EscapeHTML(v.album)),
       Seg("artist", "texto", EscapeHTML(v.artista)),
       Seg("ano", "texto", v.ano),
       Seg("selo", "texto", EscapeHTML(Ou(v.selo, NA))) >>

\* createVinilDetailsHTML(vinil): the interpolations of the returned string.
CreateVinilDetailsHTML(v) ==
    << Seg("title", "texto", EscapeHTML(v.album)),
       Seg("img.src", "atributo", SvgPlaceholder(v.album, 20)),
       Seg("img.alt", "atributo", v.album),
       Seg("artist", "texto", EscapeHTML(v.artista)),
       Seg("subtitle", "texto", EscapeHTML(v.album) \o <<" ", "(">> \o v.ano \o <<")">>),
       Seg("cor", "texto", EscapeHTML(Ou(v.cor_prensagem, NA))),
       Seg("ano", "texto", v.ano),
       Seg("selo", "texto", EscapeHTML(Ou(v.selo, NA))),
       Seg("midia", "texto", EscapeHTML(Ou(v.midia, LP))) >>

\* The statistics of a collection that holds the record v alone.
StatsDe(v) ==
    [total_vinis |-> <<"1">>,
     por_cor |-> <<[cor_prensagem |-> v.cor_prensagem, quantidade |-> <<"1">>]>>]

\* JSON.stringify(stats, null, 2)
JsonStringify(stats) ==
    <<"{", "total_vinis:">> \o stats.total_vinis \o <<"por_cor:", "[", "{", "cor_prensagem:">>
        \o JsonString(stats.por_cor[1].cor_prensagem)
        \o <<"quantidade:">> \o stats.por_cor[1].quantidade \o <<"}", "]", "}">>

\* renderStats(stats): the interpolations of container.innerHTML.
RenderStatsHTML(stats) ==
    << Seg("total", "texto", stats.total_vinis),
       Seg("cor", "texto", EscapeHTML(stats.por_cor[1].cor_prensagem)),
       Seg("quantidade", "texto", stats.por_cor[1].quantidade),
       Seg("pre", "texto", JsonStringify(stats)) >>

\* Field values of a record as the backend may return them.
Textos == { <<"a">>, <<"A", " ", "a">>, <<"<", "a", ">">>, <<"a", "\"">> }
AnoTextos == { <<"1", "9", "7", "3">> }
CapaTextos == { <<>>, <<"/uploads", "a">>, <<"a", "\"", ">", "<">> }
Vinis ==
    [album : Textos, artista : {<<"a">>, <<"<", "a", ">">>},
     cor_prensagem : {<<"A", " ", "a">>, <<"a", "\"", ">", "<">>},
     ano : AnoTextos, selo : {<<>>, <<"a", "&">>}, midia : {<<>>, LP},
     capa : CapaTextos]

\* ======================================== api.compararPrensagens (api.js)
\* A JSON value of a field: its type and its text.
Str(text) == [t |-> "string", v |-> text]
Num(text) == [t |-> "number", v |-> text]
Null == [t |-> "null", v |-> ""]

\* Mutant: a != b, which converts a number and a string before comparing.
DiferenteFrouxo(a, b) == a.v # b.v

\* a !== b: different types, or different values of one type.
Diferente(a, b) == a.t # b.t \/ a.v # b.v

\* The fields compared.
CamposComparados == {"artista", "album", "cor_prensagem", "ano", "selo", "midia"}

\* The object api.compararPrensagens returns for the two fetched records.
CompararPrensagens(a, b) ==
    [vinil_a |-> a,
     vinil_b |-> b,
     diferencas |->
        [artista |-> Diferente(a.artista, b.artista),
         album |-> Diferente(a.album, b.album),
         cor_prensagem |-> Diferente(a.cor_prensagem, b.cor_prensagem),
         ano |-> Diferente(a.ano, b.ano),
         selo |-> Diferente(a.selo, b.selo),
         midia |-> Diferente(a.midia, b.midia)]]

\* Records as GET /vinis/<id> may return them.
Prensagens ==
    [id : {Num("1")},
     artista : {Str("Pink Floyd"), Str("Queen")},
     album : {Str("The Wall"), Str("Jazz")},
     cor_prensagem : {Str("Preto"), Str("Colorido")},
     ano : {Num("1979"), Str("1979")},
     selo : {Null, Str("EMI")},
     midia : {Str("LP"), Str("EP")}]
SemResultado ==
    [vinil_a |-> Null, vinil_b |-> Null,
     diferencas |-> [f \in CamposComparados |-> FALSE]]

\* ================================================= cover image (main.js)
\* 5 * 1024 * 1024
TamanhoMaximo == 5242880

\* A file: its size in bytes and its MIME type "<grupo>/<sub>"; the type of a
\* file the browser does not recognise is the empty string.
Arquivo(size, grupo, sub) == [size |-> size, grupo |-> grupo, sub |-> sub]
NenhumArquivo == Arquivo(0, "-", "-")
Tipos ==
    { <<"image", "jpeg">>, <<"image", "png">>, <<"image", "gif">>,
      <<"image", "webp">>, <<"image", "svg+xml">>, <<"application", "pdf">>,
      <<"", "">> }
Arquivos ==
    { Arquivo(size, t[1], t[2]) :
        size \in {1024, TamanhoMaximo, TamanhoMaximo + 1}, t \in Tipos }

\* file.type.startsWith('image/')
TypeStartsWithImage(file) == file.grupo = "image"

MsgImagemGrande == "Imagem muito grande! Maximo 5MB."
MsgFormatoInvalido == "Formato invalido! Use JPG, PNG, GIF ou WEBP."

\* The outcome of the two checks of the change listener.
ValidaArquivo(file) ==
    IF file.size > TamanhoMaximo THEN MsgImagemGrande
    ELSE IF ~TypeStartsWithImage(file) THEN MsgFormatoInvalido
    ELSE "ok"

PreviewVazio == [src |-> NenhumArquivo, displayed |-> FALSE]

\* getImageData(): the data URL of the preview when it is displayed, or null.
GetImageData(p) ==
    IF p.src # NenhumArquivo /\ p.displayed THEN p.src ELSE NenhumArquivo

\* ================================================ showNotification (ui.js)
\* A notification element as showNotification leaves it: its type, whether it
\* carries the class 'show', whether its 10 ms timer is pending, and which of
\* its removal timers is pending: the one of 4000 ms, then the one of 300 ms,
\* then none.
NovaNotificacao(type) ==
    [type |-> type, show |-> FALSE, timerShow |-> TRUE, timer |-> "4000"]

\* Mutant: the notification present is left in the document.
RemoveExistenteAusente(els) == els

\* document.querySelector('.notification')?.remove(): the first notification
\* element of the document, if any, is detached.
RemoveExistente(els) ==
    IF els = {} THEN {}
    ELSE els \ {CHOOSE n \in els : \A m \in els : n <= m}

\* ================================================================= text
\* Text typed by the user is a sequence of one-character strings.
Digits == <<"0", "1", "2", "3", "4", "5", "6", "7", "8", "9">>
IsDigit(c) == \E i \in DOMAIN Digits : Digits[i] = c
DigitVal(c) == (CHOOSE i \in DOMAIN Digits : Digits[i] = c) - 1

RECURSIVE TrimStart(_)
TrimStart(s) == IF s # <<>> /\ Head(s) = " " THEN TrimStart(Tail(s)) ELSE s

RECURSIVE TrimEnd(_)
TrimEnd(s) ==
    IF s # <<>> /\ s[Len(s)] = " " THEN TrimEnd(SubSeq(s, 1, Len(s) - 1)) ELSE s

\* String.prototype.trim
Trim(s) == TrimEnd(TrimStart(s))

RECURSIVE DigitsValue(_, _)
\* Value of the longest prefix of digits of s, continuing from acc.
DigitsValue(s, acc) ==
    IF s # <<>> /\ IsDigit(Head(s))
    THEN DigitsValue(Tail(s), 10 * acc + DigitVal(Head(s)))
    ELSE acc

\* parseInt(text): leading white space is skipped, an optional sign and the
\* longest prefix of digits are read; NaN when there is no digit.
ParseInt(text) ==
    LET t == TrimStart(text)
        neg == t # <<>> /\ Head(t) = "-"
        d == IF t # <<>> /\ Head(t) \in {"-", "+"} THEN Tail(t) ELSE t
    IN  IF d = <<>> \/ ~IsDigit(Head(d))
        THEN [nan |-> TRUE, val |-> 0]
        ELSE [nan |-> FALSE,
              val |-> IF neg THEN 0 - DigitsValue(d, 0) ELSE DigitsValue(d, 0)]

\* !n for the result of parseInt: NaN and 0 are falsy.
Falsy(n) == n.nan \/ n.val = 0

\* ============================================================== records
\* A record held by the backend; what distinguishes two records is the id.
Rec(i) == [id |-> i, conteudo |-> 1]

\* vinil.cor_prensagem and vinil.midia of the stored records.
CorPrensagem(v) == IF v.id % 2 = 1 THEN "Preto" ELSE "Colorido"
Midia(v) == IF v.id = 1 THEN "LP" ELSE "EP"

\* Whether the artist, and the album, of a stored record contain the text
\* that is searched for.
ArtistaCasa(v) == v.id % 2 = 1
AlbumCasa(v) == v.id <= 2

\* The stored records in the order of their ids.
RecSeq(S) == LET s == SeqFromSet(S) IN [i \in DOMAIN s |-> Rec(s[i])]

\* A value that is an array or null: the body of a list response.
Lista(itens) == [nulo |-> FALSE, itens |-> itens]
ListaNula == [nulo |-> TRUE, itens |-> <<>>]

\* ======================================================= requests in flight
\* One gateway operation awaited by a handler. op names the handler that
\* awaits it, st is "sent" until the backend has answered with success and
\* then "ok" or "nulo" (a null body); stB and dadosB are the album
\* sub-query of a combined search; cor and midia are the filter values
\* applyFilters read before it awaited; termo is the text of a search.
Req(op, id) ==
    [op |-> op, id |-> id, id2 |-> 0, st |-> "sent", dados |-> <<>>,
     stB |-> "-", dadosB |-> <<>>, cor |-> "", midia |-> "", termo |-> <<>>]
ReqBusca == [Req("busca", 0) EXCEPT !.stB = "sent"]
ReqBuscaTermo(termo) == [ReqBusca EXCEPT !.termo = termo]
ReqFiltros(cor, midia) == [Req("filtros", 0) EXCEPT !.cor = cor, !.midia = midia]
ReqComparar(op, id, id2) == [Req(op, id) EXCEPT !.id2 = id2]

InFlight == BagToSet(net)
Enviar(e) == net (+) SetToBag({e})
Retirar(e) == net (-) SetToBag({e})
Trocar(e, f) == (net (-) SetToBag({e})) (+) SetToBag({f})
\* The user starts a further operation: up to MaxInFlight at a time.
PodeEnviar == BagCardinality(net) < MaxInFlight
\* A request fails when the transport fails or the status is not a success:
\* the handler that awaits it goes on without an answer of the backend.
Falhou(e) == e.st = "sent"
ListaDe(e) == IF e.st = "nulo" THEN ListaNula ELSE Lista(e.dados)

\* vinil.artista and vinil.ano of the stored records; the second record has
\* no year.
Artista(v) == IF v.id % 2 = 1 THEN "Abba" ELSE "Queen"
Ano(v) == IF v.id = 2 THEN 0 ELSE 2001 - v.id

\* Math.min over a non-empty set of years.
MathMin(anos) == CHOOSE a \in anos : \A b \in anos : a <= b

\* The mini statistics of the page before any render.
MiniStatsInicial == [total |-> 0, raridades |-> 0, artistas |-> 0, maisAntigo |-> "----"]

\* The texts updateMiniStats(vinis) writes for a non-empty array.
MiniStatsDe(itens) ==
    LET anos == {Ano(itens[i]) : i \in DOMAIN itens} \ {0}
    IN  [total |-> Len(itens),
         raridades |-> Cardinality({i \in DOMAIN itens :
                          CorPrensagem(itens[i]) \in {"Colorido", "Transparente"}}),
         artistas |-> Cardinality({Artista(itens[i]) : i \in DOMAIN itens}),
         maisAntigo |-> IF anos # {} THEN MathMin(anos) ELSE "----"]

\* updateMiniStats(vinis): nothing is written for an empty array.
UpdateMiniStats(vinis) ==
    IF vinis.nulo \/ Len(vinis.itens) = 0 THEN miniStats ELSE MiniStatsDe(vinis.itens)

\* Mutant: renderVinisGrid appends the cards without emptying the grid.
RenderSemLimpar(vinis) ==
    IF vinis.nulo \/ Len(vinis.itens) = 0
    THEN [grid |-> grid, loading |-> FALSE, noResults |-> TRUE,
          miniStats |-> miniStats]
    ELSE [grid |-> grid \o vinis.itens, loading |-> FALSE, noResults |-> FALSE,
          miniStats |-> UpdateMiniStats(vinis)]

\* renderVinisGrid(vinis): what it leaves in #vinis-grid, #loading,
\* #no-results and the mini statistics; it returns before updateMiniStats
\* when there is nothing to render.
RenderVinisGrid(vinis) ==
    IF vinis.nulo \/ Len(vinis.itens) = 0
    THEN [grid |-> <<>>, loading |-> FALSE, noResults |-> TRUE,
          miniStats |-> miniStats]
    ELSE [grid |-> vinis.itens, loading |-> FALSE, noResults |-> FALSE,
          miniStats |-> UpdateMiniStats(vinis)]

\* The document after renderVinisGrid(vinis).
Render(vinis) ==
    /\ grid' = RenderVinisGrid(vinis).grid
    /\ loading' = RenderVinisGrid(vinis).loading
    /\ noResults' = RenderVinisGrid(vinis).noResults
    /\ miniStats' = RenderVinisGrid(vinis).miniStats

\* showLoading()
ShowLoading ==
    /\ loading' = TRUE
    /\ noResults' = FALSE
    /\ grid' = <<>>
    /\ UNCHANGED miniStats

\* showNotification replaces the notification present, if any.
NoNotification == [tipo |-> "nenhuma", msg |-> ""]
ShowError(msg) == [tipo |-> "error", msg |-> msg]
ShowSuccess(msg) == [tipo |-> "success", msg |-> msg]

\* Content of #stats-container.
StatsVazio == [estado |-> "vazio", dados |-> <<>>]
\* showStatsLoading()
StatsLoading == [estado |-> "carregando", dados |-> <<>>]
\* renderStats(stats)
RenderStats(stats) == [estado |-> "stats", dados |-> stats]

\* Content of #detalhes-content.
DetalhesVazio == [tipo |-> "vazio", id |-> 0]
\* createVinilDetailsHTML(vinil)
DetalhesVinil(id) == [tipo |-> "vinil", id |-> id]
\* The inline message of showVinilDetailsModal's catch.
DetalhesErro == [tipo |-> "erro", id |-> 0]

\* ================================================================ main.js
\* ------------------------------------------------------------- the form
FormVazio ==
    [artista |-> <<>>, album |-> <<>>, cor |-> "", ano |-> <<>>, midia |-> "",
     selo |-> <<>>]
\* A filling that passes the validation.
FormValido ==
    [artista |-> <<"A">>, album |-> <<"B", " ">>, cor |-> "Preto",
     ano |-> <<"2", "0", "0", "0">>, midia |-> "LP", selo |-> <<>>]
\* Years typed into #form-ano.
AnoInputs ==
    { <<>>, <<"0">>, <<"1", "8", "9", "9">>, <<"1", "9", "0", "0">>,
      <<"2", "0", "2", "5">>, <<"2", "0", "2", "6">> }
\* The fillings the user types: the valid one, and the valid one with one
\* field changed.
FormInputs ==
    {FormValido}
    \cup {[FormValido EXCEPT !.ano = a] : a \in AnoInputs}
    \cup {[FormValido EXCEPT !.artista = <<" ">>],
          [FormValido EXCEPT !.album = <<>>],
          [FormValido EXCEPT !.cor = ""],
          [FormValido EXCEPT !.midia = ""]}

\* Bounds of the accepted year.
AnoMin == 1900
AnoMax == 2025

\* vinilData as handleFormSubmit collects it from the fields.
VinilData(campos) ==
    [artista |-> Trim(campos.artista), album |-> Trim(campos.album),
     cor_prensagem |-> campos.cor, ano |-> ParseInt(campos.ano),
     midia |-> campos.midia, selo |-> Trim(campos.selo)]

\* Mutant: the year is not among the required fields and its range is not
\* checked.
ValidarSemAno(d) ==
    IF d.artista = <<>> \/ d.album = <<>> \/ d.cor_prensagem = "" \/ d.midia = ""
    THEN "obrigatorios"
    ELSE "ok"

\* The validations of handleFormSubmit: which one rejects vinilData, or "ok".
Validar(d) ==
    IF d.artista = <<>> \/ d.album = <<>> \/ d.cor_prensagem = ""
       \/ Falsy(d.ano) \/ d.midia = ""
    THEN "obrigatorios"
    ELSE IF d.ano.val < AnoMin \/ d.ano.val > AnoMax THEN "ano" ELSE "ok"

\* Mutant: the edit id is ignored, every submission is a create.
EnvioSempreCriar(editId) == Req("criar", 0)

\* The gateway call of an accepted submission: atualizarVinil(editId, ...)
\* when the form carries an edit id (0 stands for none), else adicionarVinil.
Envio(editId) ==
    IF editId # 0 THEN Req("atualizar", editId) ELSE Req("criar", 0)

MsgObrigatorios == "Por favor, preencha todos os campos obrigatorios."
MsgAno == "Ano deve estar entre 1900 e 2025."
MsgLoad == "Nao foi possivel carregar os vinis. Verifique se a API esta rodando."
MsgBusca == "Erro ao realizar a busca."
MsgStats == "Nao foi possivel carregar as estatisticas."
MsgFiltros == "Erro ao aplicar filtros."
MsgForm == "Erro ao adicionar vinil"
MsgDelete == "Erro ao deletar vinil"
MsgEdit == "Erro ao carregar vinil"
MsgComparar == "Erro ao comparar"
MsgIds == "Por favor, preencha ambos os IDs."
MsgIguais == "Os IDs devem ser diferentes."
MsgAdicionado == "Vinil adicionado com sucesso!"
MsgAtualizado == "Vinil atualizado com sucesso!"
MsgDeletado == "Vinil deletado com sucesso da sua colecao!"

\* Shortest text that starts a combined search.
MinBusca == 2

\* Texts typed into #search-input.
SearchInputs == { <<>>, <<"a", " ">>, <<"a", "b">>, <<" ", "a", "b">> }

\* Values of #filter-midia offered by the page.
MidiaOptions == {"", "LP"}

\* Texts typed into #vinil-id-a and #vinil-id-b.
IdInputs == {<<>>} \cup {<<Digits[i + 1]>> : i \in Ids}

\* Mutant: applyFilters ignores the medium.
FiltrarSoCor(itens, cor, midia) ==
    IF cor # "" THEN SelectSeq(itens, LAMBDA v : CorPrensagem(v) = cor) ELSE itens

\* The filters of applyFilters applied to an array; an empty value selects all.
FiltrarVinis(itens, cor, midia) ==
    LET porCor == IF cor # ""
                  THEN SelectSeq(itens, LAMBDA v : CorPrensagem(v) = cor)
                  ELSE itens
    IN  IF midia # ""
        THEN SelectSeq(porCor, LAMBDA v : Midia(v) = midia)
        ELSE porCor

RECURSIVE CoresDe(_)
\* stats.por_cor: the colours of the stored records, one group per colour.
CoresDe(dados) ==
    IF dados = <<>> THEN <<>>
    ELSE LET resto == CoresDe(Tail(dados))
             c == CorPrensagem(Head(dados))
         IN  IF \E i \in DOMAIN resto : resto[i] = c THEN resto ELSE <<c>> \o resto

\* The fields handleEditVinil fills in from the fetched record.
FormDe(id) ==
    [FormValido EXCEPT !.cor = CorPrensagem(Rec(id)), !.midia = Midia(Rec(id))]

\* The cover stored with a record: the first record has an uploaded one.
CapaDe(id) == IF id = 1 THEN "/uploads/capa" ELSE ""

\* The src of #preview-img after handleEditVinil: the cover of the record,
\* or what the preview showed before when the record has none.
PreviewDe(id, anterior) ==
    IF CapaDe(id) = "" THEN anterior ELSE "http://localhost:5000" \o CapaDe(id)

\* The sub-query promise of a combined search, from its answer.
SubQuery(st, dados) == IF st = "ok" THEN Fulfilled(dados) ELSE Rejected

\* Mutant: loadVinis renders the result set it already holds.
LoadVinisCache(e) == appState.currentVinis

\* The array loadVinis stores and renders: the body of the response.
LoadVinisResultado(e) == ListaDe(e)

\* Mutant: the catch of loadVinis hides the loading indicator and shows nothing.
LoadVinisFimCalado(e) ==
    IF Falhou(e)
    THEN /\ loading' = FALSE
         /\ UNCHANGED <<appState, grid, noResults, miniStats, notification>>
    ELSE /\ appState' = [appState EXCEPT !.currentVinis = LoadVinisResultado(e)]
         /\ Render(LoadVinisResultado(e))
         /\ UNCHANGED notification

\* Mutant: a response that arrives while another list request is outstanding
\* is dropped.
LoadVinisFimDescarta(e) ==
    IF Falhou(e)
    THEN /\ notification' = ShowError(MsgLoad)
         /\ loading' = FALSE
         /\ UNCHANGED <<appState, grid, noResults, miniStats>>
    ELSE IF \E f \in BagToSet(Retirar(e)) :
                f.op \in {"loadVinis", "reloadForm", "reloadDelete", "busca", "filtros"}
    THEN UNCHANGED <<appState, grid, loading, noResults, miniStats,
                     notification>>
    ELSE /\ appState' = [appState EXCEPT !.currentVinis = LoadVinisResultado(e)]
         /\ Render(LoadVinisResultado(e))
         /\ UNCHANGED notification

\* loadVinis after its await: the response is stored and rendered whole, a
\* failure is notified and hides the loading indicator.
LoadVinisFim(e) ==
    IF Falhou(e)
    THEN /\ notification' = ShowError(MsgLoad)
         /\ loading' = FALSE
         /\ UNCHANGED <<appState, grid, noResults, miniStats>>
    ELSE /\ appState' = [appState EXCEPT !.currentVinis = LoadVinisResultado(e)]
         /\ Render(LoadVinisResultado(e))
         /\ UNCHANGED notification

\* Mutant: no reload follows a successful create, update or delete.
ReloadAusente(e) == {}

\* Mutant: the reload follows a failed create, update or delete as well.
ReloadSempre(e) ==
    IF e.op = "deletar" THEN {Req("reloadDelete", e.id)} ELSE {Req("reloadForm", 0)}

\* The loadVinis() call that follows a create, update or delete: issued on
\* success only.
ReloadApos(e) ==
    IF Falhou(e) THEN {}
    ELSE IF e.op = "deletar" THEN {Req("reloadDelete", e.id)}
    ELSE {Req("reloadForm", 0)}

\* ------------------------------------------------------------ user input
\* Mutant: the pending timer is not cleared.
ClearTimeoutAusente(timers) == timers

\* Mutant: only a timer set for a text too short to search is cleared.
ClearTimeoutSeCurto(timers) ==
    SelectSeq(timers, LAMBDA termo : Len(termo) >= MinBusca)

\* clearTimeout(searchTimeout): the pending timer, if any, will not fire.
ClearTimeout(timers) == <<>>

\* The input listener of #search-input: the pending timer is cleared and a
\* new one is set with the trimmed text.
InputBusca(text) ==
    /\ searchInput' = text
    /\ searchTimeout' = Append(ClearTimeout(searchTimeout), Trim(text))
    /\ UNCHANGED <<db, nextId, net, appState, varsLista, statsContainer,
                   notification, modais, detalhesContent, varsForm, varsFiltro,
                   comparacao, removidos, statsAnterior, uso, recusado,
                   varsBusca>>

\* The debounce timer fires: buscarVinis(termo) or loadVinis(), up to the await.
DebounceDispara ==
    /\ searchTimeout # <<>>
    /\ PodeEnviar
    /\ ShowLoading
    /\ IF Len(searchTimeout[1]) >= MinBusca
       THEN /\ appState' = [appState EXCEPT !.isSearching = TRUE]
            /\ net' = Enviar(ReqBuscaTermo(searchTimeout[1]))
       ELSE /\ net' = Enviar(Req("loadVinis", 0))
            /\ UNCHANGED appState
    /\ searchTimeout' = Tail(searchTimeout)
    /\ UNCHANGED <<db, nextId, statsContainer, notification, modais,
                   detalhesContent, varsForm, varsFiltro, comparacao, varsHist,
                   varsBusca>>

\* change on #filter-cor or #filter-midia: applyFilters up to its await, or to
\* its end when it holds records.
MudaFiltro(cor, midia) ==
    /\ cor \in {""} \cup Range(filterCorOptions)
    /\ midia \in MidiaOptions
    /\ (cor = filterCor) # (midia = filterMidia)
    /\ filterCor' = cor
    /\ filterMidia' = midia
    /\ IF appState.currentVinis.nulo \/ Len(appState.currentVinis.itens) = 0
       THEN /\ PodeEnviar
            /\ ShowLoading
            /\ net' = Enviar(ReqFiltros(cor, midia))
       ELSE /\ Render(Lista(FiltrarVinis(appState.currentVinis.itens, cor, midia)))
            /\ UNCHANGED net
    /\ UNCHANGED <<db, nextId, appState, searchTimeout, statsContainer,
                   notification, modais, detalhesContent, varsForm,
                   filterCorOptions, comparacao, varsHist, varsBusca>>

\* click on #btn-stats: loadStats up to its await, and the stats modal opens.
ClickStats ==
    /\ PodeEnviar
    /\ statsContainer' = StatsLoading
    /\ net' = Enviar(Req("stats", 0))
    /\ modais' = modais \cup {"stats"}
    /\ UNCHANGED <<db, nextId, appState, searchTimeout, varsLista, notification,
                   detalhesContent, varsForm, varsFiltro, comparacao, varsHist,
                   varsBusca>>

\* click on a card of the grid: showVinilDetailsModal(id) up to its await.
ClickCard(id) ==
    /\ \E i \in DOMAIN grid : grid[i].id = id
    /\ PodeEnviar
    /\ net' = Enviar(Req("detalhes", id))
    /\ UNCHANGED <<db, nextId, appState, searchTimeout, varsLista,
                   statsContainer, notification, modais, detalhesContent,
                   varsForm, varsFiltro, comparacao, varsHist, varsBusca>>

\* Mutant: handleDeleteVinil goes on whatever the answer to confirm().
ClickDeleteSemConfirmar(id, confirmacao) ==
    /\ recusado' = (recusado \/ ~confirmacao)
    /\ PodeEnviar
    /\ net' = Enviar(Req("deletar", id))
    /\ UNCHANGED <<db, nextId, appState, searchTimeout, varsLista,
                   statsContainer, notification, modais, detalhesContent,
                   varsForm, varsFiltro, comparacao, removidos, statsAnterior,
                   uso, searchInput, varsBusca>>

\* click on a .btn-delete-vinil: handleDeleteVinil(id) up to its await, or to
\* its return when the user declines.
ClickDelete(id, confirmacao) ==
    /\ recusado' = (recusado \/ ~confirmacao)
    /\ IF confirmacao
       THEN /\ PodeEnviar
            /\ net' = Enviar(Req("deletar", id))
       ELSE UNCHANGED net
    /\ UNCHANGED <<db, nextId, appState, searchTimeout, varsLista,
                   statsContainer, notification, modais, detalhesContent,
                   varsForm, varsFiltro, comparacao, removidos, statsAnterior,
                   uso, searchInput, varsBusca>>

\* click on a .btn-edit-vinil: handleEditVinil(id) up to its await.
ClickEdit(id) ==
    /\ PodeEnviar
    /\ net' = Enviar(Req("editar", id))
    /\ UNCHANGED <<db, nextId, appState, searchTimeout, varsLista,
                   statsContainer, notification, modais, detalhesContent,
                   varsForm, varsFiltro, comparacao, varsHist, varsBusca>>

\* click on #btn-adicionar: the form is reset, leaves edit mode and opens.
ClickAdicionar ==
    /\ form' = [campos |-> FormVazio, editId |-> 0, preview |-> ""]
    /\ modais' = modais \cup {"form"}
    /\ UNCHANGED <<db, nextId, net, appState, searchTimeout, varsLista,
                   statsContainer, notification, detalhesContent,
                   submitDisabled, submitLabel, originalBtnText, varsFiltro,
                   comparacao, varsHist, varsBusca>>

\* The user fills in the fields of the open form.
FillForm(campos) ==
    /\ "form" \in modais
    /\ form.campos # campos
    /\ form' = [form EXCEPT !.campos = campos]
    /\ UNCHANGED <<db, nextId, net, appState, searchTimeout, varsLista,
                   statsContainer, notification, modais, detalhesContent,
                   submitDisabled, submitLabel, originalBtnText, varsFiltro,
                   comparacao, varsHist, varsBusca>>

\* The labels of the submit button: the one of the page and the one shown
\* while a submission is in progress.
LabelOriginal == "Salvar"
LabelSalvando == "Salvando..."

\* A finally block that leaves the button as it is.
SubmitBtnFinallyAusente(original) ==
    [disabled |-> TRUE, innerHTML |-> LabelSalvando]

\* The finally block of handleFormSubmit: the button is enabled again and
\* gets back the label read when the handler started.
SubmitBtnFinally(original) ==
    [disabled |-> FALSE, innerHTML |-> original]

\* submit of #form-vinil: handleFormSubmit up to its await, or to its end when
\* a validation rejects the fields.
SubmitForm ==
    /\ "form" \in modais
    /\ ~submitDisabled
    /\ originalBtnText' = submitLabel
    /\ LET v == Validar(VinilData(form.campos))
       IN  IF v = "ok"
           THEN /\ PodeEnviar
                /\ net' = Enviar(Envio(form.editId))
                /\ submitDisabled' = TRUE
                /\ submitLabel' = LabelSalvando
                /\ UNCHANGED notification
           ELSE /\ notification' =
                       ShowError(IF v = "ano" THEN MsgAno ELSE MsgObrigatorios)
                /\ submitDisabled' = SubmitBtnFinally(originalBtnText').disabled
                /\ submitLabel' = SubmitBtnFinally(originalBtnText').innerHTML
                /\ UNCHANGED net
    /\ UNCHANGED <<db, nextId, appState, searchTimeout, varsLista,
                   statsContainer, modais, detalhesContent, form, varsFiltro,
                   comparacao, varsHist, varsBusca>>

\* Escape: the three modals are hidden.
Escape ==
    /\ modais # {}
    /\ modais' = {}
    /\ UNCHANGED <<db, nextId, net, appState, searchTimeout, varsLista,
                   statsContainer, notification, detalhesContent, varsForm,
                   varsFiltro, comparacao, varsHist, varsBusca>>

\* compararPrensagens() of main.js up to the first await of the api function.
Comparar(textA, textB) ==
    /\ LET idA == ParseInt(textA)
           idB == ParseInt(textB)
       IN  IF Falsy(idA) \/ Falsy(idB)
           THEN notification' = ShowError(MsgIds) /\ UNCHANGED net
           ELSE IF idA = idB
           THEN notification' = ShowError(MsgIguais) /\ UNCHANGED net
           ELSE /\ PodeEnviar
                /\ net' = Enviar(ReqComparar("compararA", idA.val, idB.val))
                /\ UNCHANGED notification
    /\ UNCHANGED <<db, nextId, appState, searchTimeout, varsLista,
                   statsContainer, modais, detalhesContent, varsForm,
                   varsFiltro, comparacao, varsHist, varsBusca>>

\* -------------------------------------------------------------- backend
\* GET /vinis/ answers with the stored records, or with a null body.
ServidorLista(e) ==
    /\ e.st = "sent"
    /\ e.op \in {"loadVinis", "reloadForm", "reloadDelete", "filtros"}
    /\ \/ net' = Trocar(e, [e EXCEPT !.st = "ok", !.dados = RecSeq(db)])
       \/ net' = Trocar(e, [e EXCEPT !.st = "nulo"])
    /\ UNCHANGED <<db, nextId, appState, searchTimeout, varsLista,
                   statsContainer, notification, modais, detalhesContent,
                   varsForm, varsFiltro, comparacao, varsHist, varsBusca>>

\* GET /vinis/search?artista= and ?album= : each sub-query of a combined
\* search is answered on its own, with the stored records it matches.
ServidorBusca(e) ==
    /\ e.op = "busca"
    /\ \/ /\ e.st = "sent"
          /\ net' = Trocar(e, [e EXCEPT !.st = "ok",
                                        !.dados = RecSeq({i \in db : ArtistaCasa(Rec(i))})])
       \/ /\ e.stB = "sent"
          /\ net' = Trocar(e, [e EXCEPT !.stB = "ok",
                                        !.dadosB = RecSeq({i \in db : AlbumCasa(Rec(i))})])
    /\ UNCHANGED <<db, nextId, appState, searchTimeout, varsLista,
                   statsContainer, notification, modais, detalhesContent,
                   varsForm, varsFiltro, comparacao, varsHist, varsBusca>>

\* GET /stats/ answers with the aggregate of the stored records.
ServidorStats(e) ==
    /\ e.st = "sent"
    /\ e.op \in {"stats", "cores"}
    /\ net' = Trocar(e, [e EXCEPT !.st = "ok", !.dados = RecSeq(db)])
    /\ UNCHANGED <<db, nextId, appState, searchTimeout, varsLista,
                   statsContainer, notification, modais, detalhesContent,
                   varsForm, varsFiltro, comparacao, varsHist, varsBusca>>

\* GET /vinis/{id} answers with the record when it is stored.
ServidorGet(e) ==
    /\ e.st = "sent"
    /\ e.op \in {"detalhes", "editar", "compararA", "compararB"}
    /\ e.id \in db
    /\ net' = Trocar(e, [e EXCEPT !.st = "ok"])
    /\ UNCHANGED <<db, nextId, appState, searchTimeout, varsLista,
                   statsContainer, notification, modais, detalhesContent,
                   varsForm, varsFiltro, comparacao, varsHist, varsBusca>>

\* POST /vinis/ stores a new record under the next id.
ServidorCriar(e) ==
    /\ e.st = "sent"
    /\ e.op = "criar"
    /\ nextId <= MaxId + 1
    /\ db' = db \cup {nextId}
    /\ nextId' = nextId + 1
    /\ net' = Trocar(e, [e EXCEPT !.st = "ok", !.id = nextId])
    /\ UNCHANGED <<appState, searchTimeout, varsLista, statsContainer,
                   notification, modais, detalhesContent, varsForm, varsFiltro,
                   comparacao, varsHist, varsBusca>>

\* PUT /vinis/{id} updates the record when it is stored.
ServidorAtualizar(e) ==
    /\ e.st = "sent"
    /\ e.op = "atualizar"
    /\ e.id \in db
    /\ net' = Trocar(e, [e EXCEPT !.st = "ok"])
    /\ UNCHANGED <<db, nextId, appState, searchTimeout, varsLista,
                   statsContainer, notification, modais, detalhesContent,
                   varsForm, varsFiltro, comparacao, varsHist, varsBusca>>

\* DELETE /vinis/{id} removes the record when it is stored.
ServidorDeletar(e) ==
    /\ e.st = "sent"
    /\ e.op = "deletar"
    /\ e.id \in db
    /\ db' = db \ {e.id}
    /\ net' = Trocar(e, [e EXCEPT !.st = "ok"])
    /\ UNCHANGED <<nextId, appState, searchTimeout, varsLista, statsContainer,
                   notification, modais, detalhesContent, varsForm, varsFiltro,
                   comparacao, varsHist, varsBusca>>

\* ------------------------------------------------- handlers after the await
\* loadVinis() called by init or by the debounce timer.
EntregaLoadVinis(e) ==
    /\ e.op = "loadVinis"
    /\ LoadVinisFim(e)
    /\ net' = Retirar(e)
    /\ UNCHANGED <<db, nextId, searchTimeout, statsContainer, modais,
                   detalhesContent, varsForm, varsFiltro, comparacao, varsHist,
                   varsBusca>>

\* buscarVinis(termo) of main.js after api.buscarVinis has returned.
EntregaBusca(e) ==
    /\ e.op = "busca"
    /\ LET r == ApiBuscarVinis(SubQuery(e.st, e.dados), SubQuery(e.stB, e.dadosB))
       IN  IF r.falhou
           THEN /\ notification' = ShowError(MsgBusca)
                /\ loading' = FALSE
                /\ UNCHANGED <<appState, grid, noResults, miniStats>>
           ELSE /\ appState' = [appState EXCEPT !.currentVinis = Lista(r.vinis)]
                /\ Render(Lista(r.vinis))
                /\ UNCHANGED notification
    /\ net' = Retirar(e)
    /\ UNCHANGED <<db, nextId, searchTimeout, statsContainer, modais,
                   detalhesContent, varsForm, varsFiltro, comparacao, varsHist,
                   varsBusca>>

\* applyFilters after api.getVinis(): a null body with a filter selected
\* throws at .filter and is caught like a failure of the call.
EntregaFiltros(e) ==
    /\ e.op = "filtros"
    /\ IF Falhou(e)
       THEN /\ notification' = ShowError(MsgFiltros)
            /\ UNCHANGED <<appState, varsLista>>
       ELSE /\ appState' = [appState EXCEPT !.currentVinis = ListaDe(e)]
            /\ IF e.st = "nulo" /\ (e.cor # "" \/ e.midia # "")
               THEN /\ notification' = ShowError(MsgFiltros)
                    /\ UNCHANGED varsLista
               ELSE /\ Render(IF e.st = "nulo" THEN ListaNula
                              ELSE Lista(FiltrarVinis(e.dados, e.cor, e.midia)))
                    /\ UNCHANGED notification
    /\ net' = Retirar(e)
    /\ UNCHANGED <<db, nextId, searchTimeout, statsContainer, modais,
                   detalhesContent, varsForm, varsFiltro, comparacao, varsHist,
                   varsBusca>>

\* loadStats after api.getStatsCores().
EntregaStats(e) ==
    /\ e.op = "stats"
    /\ IF Falhou(e)
       THEN /\ notification' = ShowError(MsgStats)
            /\ UNCHANGED <<statsContainer, statsAnterior>>
       ELSE /\ statsContainer' = RenderStats(e.dados)
            /\ statsAnterior' = RenderStats(e.dados)
            /\ UNCHANGED notification
    /\ net' = Retirar(e)
    /\ UNCHANGED <<db, nextId, appState, searchTimeout, varsLista, modais,
                   detalhesContent, varsForm, varsFiltro, comparacao, removidos,
                   uso, searchInput, recusado, varsBusca>>

\* populateColorFilter after api.getStatsCores(): a failure is only logged.
EntregaCores(e) ==
    /\ e.op = "cores"
    /\ IF Falhou(e)
       THEN UNCHANGED filterCorOptions
       ELSE filterCorOptions' = filterCorOptions \o CoresDe(e.dados)
    /\ net' = Retirar(e)
    /\ UNCHANGED <<db, nextId, appState, searchTimeout, varsLista,
                   statsContainer, notification, modais, detalhesContent,
                   varsForm, filterCor, filterMidia, comparacao, varsHist,
                   varsBusca>>

\* showVinilDetailsModal after getVinilById: a failure is written into the
\* modal, which opens in both cases.
EntregaDetalhes(e) ==
    /\ e.op = "detalhes"
    /\ detalhesContent' = IF Falhou(e) THEN DetalhesErro ELSE DetalhesVinil(e.id)
    /\ modais' = modais \cup {"detalhes"}
    /\ net' = Retirar(e)
    /\ UNCHANGED <<db, nextId, appState, searchTimeout, varsLista,
                   statsContainer, notification, varsForm, varsFiltro,
                   comparacao, varsHist, varsBusca>>

\* handleEditVinil after getVinilById: the form is filled in, takes the edit
\* id and replaces the details modal.
EntregaEditar(e) ==
    /\ e.op = "editar"
    /\ IF Falhou(e)
       THEN /\ notification' = ShowError(MsgEdit)
            /\ UNCHANGED <<modais, form>>
       ELSE /\ modais' = (modais \ {"detalhes"}) \cup {"form"}
            /\ form' = [campos |-> FormDe(e.id), editId |-> e.id,
                         preview |-> PreviewDe(e.id, form.preview)]
            /\ UNCHANGED notification
    /\ net' = Retirar(e)
    /\ UNCHANGED <<db, nextId, appState, searchTimeout, varsLista,
                   statsContainer, detalhesContent, submitDisabled, submitLabel,
                   originalBtnText, varsFiltro, comparacao, varsHist, varsBusca>>

\* handleFormSubmit after adicionarVinil or atualizarVinil: on success the
\* modal closes, the success is notified and loadVinis() starts; on failure
\* the error is notified and the button is enabled again.
EntregaSalvar(e) ==
    /\ e.op \in {"criar", "atualizar"}
    /\ IF Falhou(e)
       THEN /\ notification' = ShowError(MsgForm)
            /\ submitDisabled' = SubmitBtnFinally(originalBtnText).disabled
            /\ submitLabel' = SubmitBtnFinally(originalBtnText).innerHTML
            /\ UNCHANGED <<modais, varsLista>>
       ELSE /\ modais' = modais \ {"form"}
            /\ notification' =
                   ShowSuccess(IF e.op = "atualizar" THEN MsgAtualizado
                               ELSE MsgAdicionado)
            /\ ShowLoading
            /\ UNCHANGED <<submitDisabled, submitLabel>>
    /\ net' = Retirar(e) (+) SetToBag(ReloadApos(e))
    /\ UNCHANGED <<db, nextId, appState, searchTimeout, statsContainer,
                   detalhesContent, form, originalBtnText, varsFiltro,
                   comparacao, varsHist, varsBusca>>

\* handleFormSubmit after the loadVinis() it awaited: the form is reset and
\* leaves edit mode, the button is enabled again.
EntregaReloadForm(e) ==
    /\ e.op = "reloadForm"
    /\ LoadVinisFim(e)
    /\ form' = [campos |-> FormVazio, editId |-> 0, preview |-> ""]
    /\ submitDisabled' = SubmitBtnFinally(originalBtnText).disabled
    /\ submitLabel' = SubmitBtnFinally(originalBtnText).innerHTML
    /\ net' = Retirar(e)
    /\ UNCHANGED <<db, nextId, searchTimeout, statsContainer, modais,
                   detalhesContent, originalBtnText, varsFiltro, comparacao,
                   varsHist, varsBusca>>

\* handleDeleteVinil after deletarVinil: on success the details modal closes,
\* the success is notified and loadVinis() starts.
EntregaDeletar(e) ==
    /\ e.op = "deletar"
    /\ IF Falhou(e)
       THEN /\ notification' = ShowError(MsgDelete)
            /\ UNCHANGED <<modais, varsLista>>
       ELSE /\ modais' = modais \ {"detalhes"}
            /\ notification' = ShowSuccess(MsgDeletado)
            /\ ShowLoading
    /\ net' = Retirar(e) (+) SetToBag(ReloadApos(e))
    /\ UNCHANGED <<db, nextId, appState, searchTimeout, statsContainer,
                   detalhesContent, varsForm, varsFiltro, comparacao, varsHist,
                   varsBusca>>

\* handleDeleteVinil after the loadVinis() it awaited.
EntregaReloadDelete(e) ==
    /\ e.op = "reloadDelete"
    /\ LoadVinisFim(e)
    /\ removidos' = IF Falhou(e) THEN removidos ELSE removidos \cup {e.id}
    /\ net' = Retirar(e)
    /\ UNCHANGED <<db, nextId, searchTimeout, statsContainer, modais,
                   detalhesContent, varsForm, varsFiltro, comparacao,
                   statsAnterior, uso, searchInput, recusado, varsBusca>>

\* api.compararPrensagens after getVinilById(idA): getVinilById(idB) follows.
EntregaCompararA(e) ==
    /\ e.op = "compararA"
    /\ IF Falhou(e)
       THEN /\ notification' = ShowError(MsgComparar)
            /\ net' = Retirar(e)
       ELSE /\ net' = Trocar(e, ReqComparar("compararB", e.id2, e.id))
            /\ UNCHANGED notification
    /\ UNCHANGED <<db, nextId, appState, searchTimeout, varsLista,
                   statsContainer, modais, detalhesContent, varsForm,
                   varsFiltro, comparacao, varsHist, varsBusca>>

\* compararPrensagens of main.js after the api function has returned.
EntregaCompararB(e) ==
    /\ e.op = "compararB"
    /\ IF Falhou(e)
       THEN /\ notification' = ShowError(MsgComparar)
            /\ UNCHANGED comparacao
       ELSE /\ comparacao' = [vinil_a |-> e.id2, vinil_b |-> e.id]
            /\ UNCHANGED notification
    /\ net' = Retirar(e)
    /\ UNCHANGED <<db, nextId, appState, searchTimeout, varsLista,
                   statsContainer, modais, detalhesContent, varsForm,
                   varsFiltro, varsHist, varsBusca>>

\* ------------------------------------------------------- specifications
\* api.buscarVinis is called with the sub-query outcomes drawn by InitBusca.
BuscarVinisApi ==
    /\ buscaPc = "chamada"
    /\ vinisUnicos' = ApiBuscarVinis(resultadosArtista, resultadosAlbum)
    /\ buscaPc' = "retornou"
    /\ UNCHANGED <<db, nextId, net, appState, searchTimeout, varsLista,
                   statsContainer, notification, modais, detalhesContent,
                   varsForm, varsFiltro, comparacao, varsHist,
                   resultadosArtista, resultadosAlbum, varsFetch, varsPuro>>

\* The page after init(): the listeners are set, populateColorFilter and
\* loadVinis each await their request.
InitApp ==
    /\ db = Ids
    /\ nextId = MaxId + 1
    /\ net = SetToBag({Req("cores", 0), Req("loadVinis", 0)})
    /\ appState = [currentVinis |-> Lista(<<>>), isSearching |-> FALSE]
    /\ searchTimeout = <<>>
    /\ searchInput = <<>>
    /\ recusado = FALSE
    /\ grid = <<>>
    /\ loading = TRUE
    /\ noResults = FALSE
    /\ miniStats = MiniStatsInicial
    /\ statsContainer = StatsVazio
    /\ notification = NoNotification
    /\ modais = {}
    /\ detalhesContent = DetalhesVazio
    /\ form = [campos |-> FormVazio, editId |-> 0, preview |-> ""]
    /\ submitDisabled = FALSE
    /\ submitLabel = LabelOriginal
    /\ originalBtnText = ""
    /\ filterCor = ""
    /\ filterMidia = ""
    /\ filterCorOptions = <<>>
    /\ comparacao = [vinil_a |-> 0, vinil_b |-> 0]
    /\ removidos = {}
    /\ statsAnterior = StatsVazio
    /\ gestos = 0

InitBuscaInativa ==
    /\ resultadosArtista = Rejected
    /\ resultadosAlbum = Rejected
    /\ vinisUnicos = [falhou |-> FALSE, vinis |-> <<>>]
    /\ buscaPc = "inativa"

InitFetchInativa ==
    /\ resposta = [rede |-> FALSE, status |-> 0,
                   corpo |-> [json |-> "invalido", message |-> <<>>]]
    /\ retorno = Erro(<<>>)
    /\ fetchPc = "inativa"

InitMarkupInativa ==
    /\ vinil = [album |-> <<>>, artista |-> <<>>, cor_prensagem |-> <<>>,
                ano |-> <<>>, selo |-> <<>>, midia |-> <<>>, capa |-> <<>>]
    /\ markup = <<>>
    /\ markupPc = "inativa"

InitCompararInativa ==
    /\ vinilA = Null
    /\ vinilB = Null
    /\ resultado = SemResultado
    /\ compararPc = "inativa"

InitImagemInativa ==
    /\ fileInput = NenhumArquivo
    /\ preview = PreviewVazio
    /\ leitores = {}
    /\ capaEnviada = NenhumArquivo
    /\ selecoes = 0

InitNotifInativa ==
    /\ notifs = <<>>
    /\ body = {}

\* The parts of the program that are exercised on their own.
InitOutrosInativos ==
    InitMarkupInativa /\ InitCompararInativa /\ InitImagemInativa /\ InitNotifInativa

\* The pure parts of the program that the page does not exercise.
InitPuroInativo == InitFetchInativa /\ InitOutrosInativos

\* The parts of the page; in one behaviour the user works with one of them.
Usos == {"busca", "apagar", "filtros", "validacao", "form", "paineis", "comparar"}

Init == InitApp /\ uso \in Usos /\ InitBuscaInativa /\ InitPuroInativo

InitBusca ==
    /\ InitApp
    /\ uso = "api"
    /\ resultadosArtista \in SubQueryOutcomes
    /\ resultadosAlbum \in SubQueryOutcomes
    /\ vinisUnicos = [falhou |-> FALSE, vinis |-> <<>>]
    /\ buscaPc = "chamada"
    /\ InitPuroInativo

\* One more gesture of the user, while the behaviour has room for it.
Gesto ==
    /\ gestos < MaxGestos
    /\ gestos' = gestos + 1

\* The search box.
UsuarioBusca ==
    /\ uso = "busca"
    /\ Gesto
    /\ \E text \in SearchInputs : InputBusca(text)

\* The delete button with the confirmation accepted, next to searches.
UsuarioApagar ==
    /\ uso = "apagar"
    /\ Gesto
    /\ \/ \E id \in Ids : ClickDelete(id, TRUE)
       \/ InputBusca(<<"a", "b">>)
       \/ DebounceDispara

\* The filters, next to searches.
UsuarioFiltros ==
    /\ uso = "filtros"
    /\ Gesto
    /\ \/ \E cor \in {"", "Preto", "Colorido"}, midia \in MidiaOptions :
             MudaFiltro(cor, midia)
       \/ InputBusca(<<"a", "b">>)
       \/ DebounceDispara

\* The add form and what the user types into it.
UsuarioValidacao ==
    /\ uso = "validacao"
    /\ Gesto
    /\ \/ ClickAdicionar
       \/ \E campos \in FormInputs : FillForm(campos)
       \/ SubmitForm

\* The form in add and in edit mode.
UsuarioForm ==
    /\ uso = "form"
    /\ Gesto
    /\ \/ \E id \in Ids : ClickEdit(id)
       \/ ClickAdicionar
       \/ FillForm(FormValido)
       \/ SubmitForm

\* The statistics and the details of a card, with the delete button of the
\* record the details show.
UsuarioPaineis ==
    /\ uso = "paineis"
    /\ Gesto
    /\ \/ ClickStats
       \/ \E id \in Ids : ClickCard(id)
       \/ \E id \in Ids, confirmacao \in BOOLEAN :
             /\ "detalhes" \in modais
             /\ detalhesContent = DetalhesVinil(id)
             /\ ClickDelete(id, confirmacao)
       \/ Escape

\* The comparison.
UsuarioComparar ==
    /\ uso = "comparar"
    /\ Gesto
    /\ \E textA \in IdInputs, textB \in IdInputs : Comparar(textA, textB)

\* The 500 ms of the debounce run out at the search box.
Temporizador ==
    /\ uso = "busca"
    /\ DebounceDispara
    /\ UNCHANGED gestos

\* The backend answers a request in flight.
Servidor(e) ==
    \/ ServidorLista(e)
    \/ ServidorBusca(e)
    \/ ServidorStats(e)
    \/ ServidorGet(e)
    \/ ServidorCriar(e)
    \/ ServidorAtualizar(e)
    \/ ServidorDeletar(e)

\* The handler awaiting an answered request goes on.
Entrega(e) ==
    \/ EntregaLoadVinis(e)
    \/ EntregaBusca(e)
    \/ EntregaFiltros(e)
    \/ EntregaStats(e)
    \/ EntregaCores(e)
    \/ EntregaDetalhes(e)
    \/ EntregaEditar(e)
    \/ EntregaSalvar(e)
    \/ EntregaReloadForm(e)
    \/ EntregaDeletar(e)
    \/ EntregaReloadDelete(e)
    \/ EntregaCompararA(e)
    \/ EntregaCompararB(e)

Next ==
    \/ UsuarioBusca
    \/ UsuarioApagar
    \/ UsuarioFiltros
    \/ UsuarioValidacao
    \/ UsuarioForm
    \/ UsuarioPaineis
    \/ UsuarioComparar
    \/ Temporizador
    \/ \E e \in InFlight : (Servidor(e) \/ Entrega(e)) /\ UNCHANGED gestos

Spec == Init /\ [][Next]_vars

NextBusca == BuscarVinisApi /\ UNCHANGED gestos

SpecBusca == InitBusca /\ [][NextBusca]_vars

\* fetchAPI is called and fetch produces the outcome drawn by InitFetch.
FetchAPICall ==
    /\ fetchPc = "chamada"
    /\ retorno' = FetchAPI(resposta)
    /\ fetchPc' = "retornou"
    /\ UNCHANGED <<db, nextId, net, appState, searchTimeout, varsLista,
                   statsContainer, notification, modais, detalhesContent,
                   varsForm, varsFiltro, comparacao, varsHist, gestos,
                   resultadosArtista, resultadosAlbum, vinisUnicos, buscaPc,
                   resposta, varsPuro>>

InitFetch ==
    /\ InitApp
    /\ uso = "api"
    /\ InitBuscaInativa
    /\ resposta \in Respostas
    /\ retorno = Erro(<<>>)
    /\ fetchPc = "chamada"
    /\ InitOutrosInativos

NextFetch == FetchAPICall

SpecFetch == InitFetch /\ [][NextFetch]_vars

\* The page apart from the parts exercised on their own.
varsApp == <<db, nextId, net, appState, searchTimeout, varsLista, statsContainer,
             notification, modais, detalhesContent, varsForm, varsFiltro,
             comparacao, varsHist, gestos, resultadosArtista, resultadosAlbum,
             vinisUnicos, buscaPc, varsFetch>>

\* A card is created for the record drawn by InitMarkup.
CreateVinilCardCall ==
    /\ markupPc = "chamada"
    /\ markup' = CreateVinilCard(vinil)
    /\ markupPc' = "retornou"
    /\ UNCHANGED <<varsApp, vinil, varsComparar, varsImagem, varsNotif>>

\* The detail panel is generated for the record.
CreateVinilDetailsHTMLCall ==
    /\ markupPc = "chamada"
    /\ markup' = CreateVinilDetailsHTML(vinil)
    /\ markupPc' = "retornou"
    /\ UNCHANGED <<varsApp, vinil, varsComparar, varsImagem, varsNotif>>

\* The stats panel is rendered for a collection that holds the record.
RenderStatsCall ==
    /\ markupPc = "chamada"
    /\ markup' = RenderStatsHTML(StatsDe(vinil))
    /\ markupPc' = "retornou"
    /\ UNCHANGED <<varsApp, vinil, varsComparar, varsImagem, varsNotif>>

InitMarkup ==
    /\ InitApp
    /\ uso = "api"
    /\ InitBuscaInativa
    /\ InitFetchInativa
    /\ vinil \in Vinis
    /\ markup = <<>>
    /\ markupPc = "chamada"
    /\ InitCompararInativa
    /\ InitImagemInativa
    /\ InitNotifInativa

NextMarkup ==
    \/ CreateVinilCardCall
    \/ CreateVinilDetailsHTMLCall
    \/ RenderStatsCall

SpecMarkup == InitMarkup /\ [][NextMarkup]_vars

\* api.compararPrensagens after its two awaits, with the records drawn by
\* InitComparar.
CompararPrensagensCall ==
    /\ compararPc = "chamada"
    /\ resultado' = CompararPrensagens(vinilA, vinilB)
    /\ compararPc' = "retornou"
    /\ UNCHANGED <<varsApp, varsMarkup, varsImagem, varsNotif, vinilA, vinilB>>

\* compararPrensagens of main.js after the await: showComparacaoResultado
\* writes the result into #comparacao-output.
ShowComparacaoResultado ==
    /\ compararPc = "retornou"
    /\ comparacao' = resultado
    /\ compararPc' = "exibido"
    /\ UNCHANGED <<db, nextId, net, appState, searchTimeout, varsLista,
                   statsContainer, notification, modais, detalhesContent,
                   varsForm, varsFiltro, varsHist, gestos, resultadosArtista,
                   resultadosAlbum, vinisUnicos, buscaPc, varsFetch, varsMarkup,
                   varsImagem, varsNotif, vinilA, vinilB, resultado>>

InitComparar ==
    /\ InitApp
    /\ uso = "api"
    /\ InitBuscaInativa
    /\ InitFetchInativa
    /\ InitMarkupInativa
    /\ vinilA \in Prensagens
    /\ vinilB \in Prensagens
    /\ resultado = SemResultado
    /\ compararPc = "chamada"
    /\ InitImagemInativa
    /\ InitNotifInativa

NextComparar ==
    \/ CompararPrensagensCall
    \/ ShowComparacaoResultado

SpecComparar == InitComparar /\ [][NextComparar]_vars

\* The page apart from its notification.
varsSemNotificacao ==
    <<db, nextId, net, appState, searchTimeout, varsLista, statsContainer,
      modais, detalhesContent, varsForm, varsFiltro, comparacao, varsHist,
      gestos, resultadosArtista, resultadosAlbum, vinisUnicos, buscaPc,
      varsFetch, varsMarkup, varsComparar, varsNotif>>

\* change on #form-capa with a file selected: the file is rejected with an
\* error and the input is cleared, or a FileReader starts reading it.
SelecionaArquivo(file) ==
    /\ selecoes < MaxSelecoes
    /\ selecoes' = selecoes + 1
    /\ IF ValidaArquivo(file) # "ok"
       THEN /\ notification' = ShowError(ValidaArquivo(file))
            /\ fileInput' = NenhumArquivo
            /\ UNCHANGED leitores
       ELSE /\ fileInput' = file
            /\ leitores' = leitores \cup {file}
            /\ UNCHANGED notification
    /\ UNCHANGED <<varsSemNotificacao, preview, capaEnviada>>

\* reader.onload: the file read becomes the preview.
ReaderOnload(file) ==
    /\ file \in leitores
    /\ leitores' = leitores \ {file}
    /\ preview' = [src |-> file, displayed |-> TRUE]
    /\ UNCHANGED <<varsSemNotificacao, notification, fileInput, capaEnviada,
                   selecoes>>

\* click on #btn-remove-image: clearImagePreview().
ClearImagePreview ==
    /\ fileInput' = NenhumArquivo
    /\ preview' = PreviewVazio
    /\ UNCHANGED <<varsSemNotificacao, notification, leitores, capaEnviada,
                   selecoes>>

\* handleFormSubmit builds the payload: capa is set when getImageData()
\* returns an image.
MontaPayload ==
    /\ capaEnviada' = GetImageData(preview)
    /\ UNCHANGED <<varsSemNotificacao, notification, fileInput, preview,
                   leitores, selecoes>>

InitImagem ==
    /\ InitApp
    /\ uso = "api"
    /\ InitBuscaInativa
    /\ InitFetchInativa
    /\ InitMarkupInativa
    /\ InitCompararInativa
    /\ InitImagemInativa
    /\ InitNotifInativa

NextImagem ==
    \/ \E file \in Arquivos : SelecionaArquivo(file)
    \/ \E file \in Arquivos : ReaderOnload(file)
    \/ ClearImagePreview
    \/ MontaPayload

SpecImagem == InitImagem /\ [][NextImagem]_vars

\* showNotification(message, type): the notification present is removed, a
\* new element is appended to the body and its two timers are set.
ShowNotification(type) ==
    /\ Len(notifs) < MaxNotifs
    /\ notifs' = Append(notifs, NovaNotificacao(type))
    /\ body' = RemoveExistente(body) \cup {Len(notifs) + 1}
    /\ UNCHANGED <<varsApp, varsMarkup, varsComparar, varsImagem>>

\* The timer of 10 ms: notification.classList.add('show').
TimerShow(n) ==
    /\ n \in DOMAIN notifs
    /\ notifs[n].timerShow
    /\ notifs' = [notifs EXCEPT ![n].timerShow = FALSE, ![n].show = TRUE]
    /\ UNCHANGED <<varsApp, varsMarkup, varsComparar, varsImagem, body>>

\* The timer of 4000 ms, which fires after the one of 10 ms set just before
\* it: the class 'show' is removed and the timer of 300 ms is set.
TimerEsconde(n) ==
    /\ n \in DOMAIN notifs
    /\ notifs[n].timer = "4000"
    /\ ~notifs[n].timerShow
    /\ notifs' = [notifs EXCEPT ![n].show = FALSE, ![n].timer = "300"]
    /\ UNCHANGED <<varsApp, varsMarkup, varsComparar, varsImagem, body>>

\* The timer of 300 ms: notification.remove(), which does nothing to an
\* element already detached.
TimerRemove(n) ==
    /\ n \in DOMAIN notifs
    /\ notifs[n].timer = "300"
    /\ notifs' = [notifs EXCEPT ![n].timer = "-"]
    /\ body' = body \ {n}
    /\ UNCHANGED <<varsApp, varsMarkup, varsComparar, varsImagem>>

InitNotif ==
    /\ InitApp
    /\ uso = "api"
    /\ InitBuscaInativa
    /\ InitFetchInativa
    /\ InitMarkupInativa
    /\ InitCompararInativa
    /\ InitImagemInativa
    /\ InitNotifInativa

NextNotif ==
    \/ \E type \in {"error", "success"} : ShowNotification(type)
    \/ \E n \in 1..MaxNotifs : TimerShow(n)
    \/ \E n \in 1..MaxNotifs : TimerEsconde(n)
    \/ \E n \in 1..MaxNotifs : TimerRemove(n)

\* A timer that is set fires: the event loop runs every callback that is due.
SpecNotif ==
    /\ InitNotif
    /\ [][NextNotif]_vars
    /\ \A n \in 1..MaxNotifs :
          /\ WF_vars(TimerShow(n))
          /\ WF_vars(TimerEsconde(n))
          /\ WF_vars(TimerRemove(n))

\* ================================================================ claims
\* --------------------------------------------------------- api.buscarVinis
\* The array a sub-query contributes: its result, or nothing when it failed.
Contribui(outcome) == IF outcome.ok THEN outcome.dados ELSE <<>>
IdsDe(s) == {s[i].id : i \in DOMAIN s}
SemIdRepetido(s) == \A i, j \in DOMAIN s : s[i].id = s[j].id => i = j
TodosResultados == Contribui(resultadosArtista) \o Contribui(resultadosAlbum)
PrimeiraOcorrencia(s, id) == CHOOSE i \in DOMAIN s : s[i].id = id /\ \A j \in 1..(i - 1) : s[j].id # id
UltimaOcorrencia(s, id) == CHOOSE i \in DOMAIN s : s[i].id = id /\ \A j \in (i + 1)..Len(s) : s[j].id # id

\* C1: the combined search returns the union of the two sub-query results by
\* id: every id of either result appears in it, exactly once, and no other id.
C1_UniaoSemDuplicatas ==
    buscaPc = "retornou" =>
        /\ IdsDe(vinisUnicos.vinis) = IdsDe(TodosResultados)
        /\ SemIdRepetido(vinisUnicos.vinis)

\* C1 witness: both sub-queries returned the same id and another id besides.
C1_Witness ==
    /\ buscaPc = "retornou"
    /\ resultadosArtista.ok /\ resultadosAlbum.ok
    /\ IdsDe(resultadosArtista.dados) \cap IdsDe(resultadosAlbum.dados) # {}
    /\ Len(vinisUnicos.vinis) >= 2

\* C2 as claimed: for an id that occurs more than once in the concatenated
\* results, the record kept is the one of the first occurrence, at the first
\* occurrence's position.
C2_PrimeiraVence ==
    buscaPc = "retornou" =>
        \A i \in DOMAIN vinisUnicos.vinis :
            LET v == vinisUnicos.vinis[i]
            IN  /\ v = TodosResultados[PrimeiraOcorrencia(TodosResultados, v.id)]
                /\ \A j \in DOMAIN vinisUnicos.vinis :
                      i < j <=> PrimeiraOcorrencia(TodosResultados, v.id)
                                < PrimeiraOcorrencia(TodosResultados, vinisUnicos.vinis[j].id)

\* C2 amended: for an id that occurs more than once in the concatenated
\* results, the record kept is the one of the last occurrence, at the position
\* of the first occurrence.
C2_UltimaVenceNaPrimeiraPosicao ==
    buscaPc = "retornou" =>
        \A i \in DOMAIN vinisUnicos.vinis :
            LET v == vinisUnicos.vinis[i]
            IN  /\ v = TodosResultados[UltimaOcorrencia(TodosResultados, v.id)]
                /\ \A j \in DOMAIN vinisUnicos.vinis :
                      i < j <=> PrimeiraOcorrencia(TodosResultados, v.id)
                                < PrimeiraOcorrencia(TodosResultados, vinisUnicos.vinis[j].id)

\* C2 witness: an id occurs in both results with different contents, after
\* another id.
C2_Witness ==
    /\ buscaPc = "retornou"
    /\ Len(vinisUnicos.vinis) >= 2
    /\ \E i, j \in DOMAIN TodosResultados :
          /\ i < j
          /\ TodosResultados[i].id = TodosResultados[j].id
          /\ TodosResultados[i] # TodosResultados[j]

\* C3: a failing sub-query counts as an empty result: with one sub-query
\* failed the search returns the records of the other, with both failed it
\* returns the empty list, and the search itself never fails.
C3_FalhaParcial ==
    buscaPc = "retornou" =>
        /\ ~vinisUnicos.falhou
        /\ (~resultadosArtista.ok /\ ~resultadosAlbum.ok) => vinisUnicos.vinis = <<>>
        /\ (~resultadosArtista.ok /\ resultadosAlbum.ok) =>
              /\ IdsDe(vinisUnicos.vinis) = IdsDe(resultadosAlbum.dados)
              /\ Range(vinisUnicos.vinis) \subseteq Range(resultadosAlbum.dados)
              /\ SemIdRepetido(resultadosAlbum.dados) =>
                    vinisUnicos.vinis = resultadosAlbum.dados
        /\ (resultadosArtista.ok /\ ~resultadosAlbum.ok) =>
              /\ IdsDe(vinisUnicos.vinis) = IdsDe(resultadosArtista.dados)
              /\ Range(vinisUnicos.vinis) \subseteq Range(resultadosArtista.dados)
              /\ SemIdRepetido(resultadosArtista.dados) =>
                    vinisUnicos.vinis = resultadosArtista.dados

\* C3 witness: the artist sub-query failed and the album sub-query returned
\* records, which the search returned.
C3_Witness ==
    /\ buscaPc = "retornou"
    /\ ~resultadosArtista.ok
    /\ resultadosAlbum.ok
    /\ Len(resultadosAlbum.dados) >= 2
    /\ vinisUnicos.vinis = resultadosAlbum.dados

\* ------------------------------------------------------- handleFormSubmit
\* A filling the form rejects: a required field is missing, or the year is
\* below 1900 or above 2025.
CamposRejeitados(campos) ==
    \/ Trim(campos.artista) = <<>>
    \/ Trim(campos.album) = <<>>
    \/ campos.cor = ""
    \/ campos.midia = ""
    \/ Trim(campos.ano) = <<>>
    \/ ParseInt(campos.ano).val < 1900
    \/ ParseInt(campos.ano).val > 2025

\* The number of requests of the given operations in a bag of requests.
Pedidos(b, ops) ==
    LET S == {e \in BagToSet(b) : e.op \in ops}
    IN  BagCardinality([e \in S |-> b[e]])

\* C4: a submission with a required field missing or with a year below 1900 or
\* above 2025 makes no gateway call, shows an error and does not reload the
\* list; while the form holds such a filling no create or update is sent.
C4_RejeitadoNoCliente ==
    [][ CamposRejeitados(form.campos) =>
          /\ Pedidos(net', {"criar", "atualizar"}) <= Pedidos(net, {"criar", "atualizar"})
          /\ SubmitForm =>
                /\ net' = net
                /\ notification'.tipo = "error"
                /\ UNCHANGED <<appState, grid, loading, noResults>> ]_vars

\* C4 witness: the year 1899 was submitted and rejected for its range, and no
\* request carries the form.
C4_Witness ==
    /\ ParseInt(form.campos.ano).val = 1899
    /\ notification = ShowError(MsgAno)
    /\ Pedidos(net, {"criar", "atualizar"}) = 0

\* C5: a submission that passes the validation makes exactly one gateway call:
\* the update of the stored edit id when the form is in edit mode, otherwise
\* the create.
C5_UmaChamada ==
    [][ (SubmitForm /\ ~CamposRejeitados(form.campos)) =>
          net' = net (+) SetToBag({IF form.editId # 0
                                   THEN Req("atualizar", form.editId)
                                   ELSE Req("criar", 0)}) ]_vars

\* C5 witness: the form is in edit mode and the update of its edit id is the
\* one request in flight for it.
C5_Witness ==
    /\ form.editId # 0
    /\ submitDisabled
    /\ Pedidos(net, {"atualizar"}) = 1
    /\ Pedidos(net, {"criar"}) = 0
    /\ \E e \in InFlight : e.op = "atualizar" /\ e.id = form.editId

\* ------------------------------------------------------ handleDeleteVinil
TemCard(g, id) == \E i \in DOMAIN g : g[i].id = id

\* C6 as claimed: once a delete has succeeded and its reload has completed,
\* the rendered list never contains the deleted id, whatever other load or
\* search responses arrive.
C6_NuncaMaisRenderizado ==
    \A id \in removidos : ~TemCard(grid, id)

\* C6 amended: the list rendered by the reload that follows a successful
\* delete does not contain the deleted id.
C6_RecargaSemApagado ==
    [][ \A e \in InFlight :
          (e.op = "reloadDelete" /\ e.st # "sent" /\ EntregaReloadDelete(e)) =>
              /\ ~TemCard(grid', e.id)
              /\ ~TemCard(appState'.currentVinis.itens, e.id) ]_vars

\* C6 witness: a delete succeeded while other records stay stored, its reload
\* has rendered them, and the deleted id is not among the cards.
C6_Witness ==
    /\ removidos # {}
    /\ grid # <<>>
    /\ ~loading
    /\ \A id \in removidos : ~TemCard(grid, id)

\* C7: a successful create, update or delete starts a reload of the full list
\* and does not touch the held result set itself; a failed one starts no
\* reload; the reload's response replaces the held result set and the grid
\* whole; the held result set changes only when a list or search response is
\* delivered.
C7_RecargaCompleta ==
    [][ /\ \A e \in InFlight :
              (e.op \in {"criar", "atualizar", "deletar"}
               /\ (EntregaSalvar(e) \/ EntregaDeletar(e))) =>
                  /\ appState' = appState
                  /\ IF e.st = "ok"
                     THEN /\ Pedidos(net', {"reloadForm", "reloadDelete"})
                             = Pedidos(net, {"reloadForm", "reloadDelete"}) + 1
                          /\ BagCardinality(net') = BagCardinality(net)
                     ELSE net' = net (-) SetToBag({e})
        /\ \A e \in InFlight :
              (e.op \in {"reloadForm", "reloadDelete"} /\ e.st # "sent"
               /\ (EntregaReloadForm(e) \/ EntregaReloadDelete(e))) =>
                  /\ appState'.currentVinis = ListaDe(e)
                  /\ grid' = ListaDe(e).itens
        /\ appState'.currentVinis # appState.currentVinis =>
              \E e \in InFlight :
                  /\ e.op \in {"loadVinis", "reloadForm", "reloadDelete", "busca", "filtros"}
                  /\ net' = net (-) SetToBag({e}) ]_vars

\* C7 witness: a create has succeeded and its reload is awaited, the held
\* result set is still the one of before.
C7_Witness ==
    /\ notification = ShowSuccess(MsgAdicionado)
    /\ Pedidos(net, {"reloadForm"}) = 1
    /\ nextId > MaxId + 1
    /\ ~TemCard(appState.currentVinis.itens, MaxId + 1)

\* ------------------------------------------------------- renderVinisGrid
\* The array a list or search response carries is empty or missing.
RespostaVazia(e) ==
    IF e.op = "busca"
    THEN ApiBuscarVinis(SubQuery(e.st, e.dados), SubQuery(e.stB, e.dadosB)).vinis = <<>>
    ELSE e.st = "nulo" \/ (e.st = "ok" /\ e.dados = <<>>)

\* C8 as claimed: the delivery of a list or search response with an empty or
\* missing array shows the no-results element, hides the loading indicator,
\* leaves the grid empty and raises no notification.
C8_SemResultados ==
    [][ \A e \in InFlight :
          (e.op \in {"loadVinis", "reloadForm", "reloadDelete", "busca", "filtros"}
           /\ RespostaVazia(e) /\ Entrega(e)) =>
              /\ noResults'
              /\ ~loading'
              /\ grid' = <<>>
              /\ notification' = notification ]_vars

\* ---------------------------------------------------------------- loadStats
\* C9 as claimed: a failed statistics fetch leaves the statistics rendered by
\* the previous successful fetch in the container and shows an error.
C9_StatsMantidas ==
    [][ \A e \in InFlight :
          (e.op = "stats" /\ e.st = "sent" /\ statsAnterior.estado = "stats"
           /\ EntregaStats(e)) =>
              /\ statsContainer' = statsAnterior
              /\ notification'.tipo = "error" ]_vars

\* ------------------------------------------------------------------ errors
\* The message each handler shows when its gateway call fails.
ErroEsperado(op) ==
    CASE op \in {"loadVinis", "reloadForm", "reloadDelete"} -> MsgLoad
      [] op = "filtros" -> MsgFiltros
      [] op = "stats" -> MsgStats
      [] op = "editar" -> MsgEdit
      [] op \in {"criar", "atualizar"} -> MsgForm
      [] op = "deletar" -> MsgDelete
      [] op \in {"compararA", "compararB"} -> MsgComparar
      [] OTHER -> ""

\* C10 as claimed: every failed gateway call, except the sub-queries of the
\* combined search, ends in an error notification.
C10_TodaFalhaNotificada ==
    [][ \A e \in InFlight :
          (e.op # "busca" /\ e.st = "sent" /\ Entrega(e)) =>
              notification'.tipo = "error" ]_vars

\* C10 amended: a failed gateway call ends in the error notification of its
\* handler, except that a failure of the details fetch is written into the
\* details modal without a notification, and failures of the colour-filter
\* fetch and of the sub-queries of the combined search are swallowed.
C10_FalhaNotificadaOuInline ==
    [][ \A e \in InFlight :
          (Entrega(e) /\ (e.st = "sent" \/ (e.op = "busca" /\ e.stB = "sent"))) =>
              CASE e.op \in {"busca", "cores"} -> notification' = notification
                [] e.op = "detalhes" -> /\ notification' = notification
                                        /\ detalhesContent' = DetalhesErro
                [] OTHER -> notification' = ShowError(ErroEsperado(e.op)) ]_vars

\* C10 witness: the statistics fetch failed and was notified, the details
\* fetch failed and its message is in the details modal.
C10_Witness ==
    /\ notification = ShowError(MsgStats)
    /\ detalhesContent = DetalhesErro
    /\ "detalhes" \in modais

\* ---------------------------------------------------------------- fetchAPI
\* C11 as claimed: when the transport fails or the status is not a success,
\* fetchAPI throws an Error and returns no value; for a non-success response
\* the message is the body's message field when it has one, and otherwise
\* 'Erro HTTP: <status>'.
C11_ErroUniforme ==
    (fetchPc = "retornou" /\ (~resposta.rede \/ resposta.status \notin 200..299)) =>
        /\ retorno.tipo = "erro"
        /\ resposta.rede =>
              retorno.msg = IF resposta.corpo.message \notin {<<>>, <<"">>}
                            THEN resposta.corpo.message
                            ELSE ErroHTTP(resposta.status)

\* C12: a success with status 204 is returned as the empty object whatever
\* its body, parseable or not; any other success whose body parses is
\* returned as that parsed body.
C12_SemConteudoObjetoVazio ==
    (fetchPc = "retornou" /\ resposta.rede /\ resposta.status \in 200..299) =>
        IF resposta.status = 204
        THEN retorno = Valor(ObjetoVazio)
        ELSE resposta.corpo.json # "invalido" => retorno = Valor(resposta.corpo)

\* C12 witness: a 204 without a parseable body was returned as the empty
\* object.
C12_Witness ==
    /\ fetchPc = "retornou"
    /\ resposta.rede
    /\ resposta.status = 204
    /\ resposta.corpo.json = "invalido"
    /\ retorno = Valor(ObjetoVazio)

\* ------------------------------------------------------------ search box
\* C13: every input event leaves exactly one timer pending, the one of that
\* event with its trimmed text, and starts no gateway action; the timer that
\* fires starts exactly one gateway action, the combined search with the
\* trimmed text when it has at least 2 characters and the unfiltered load
\* otherwise, and leaves no timer pending; no step starts a search for a text
\* shorter than 2 characters.
C13_UmaAcaoPorRajada ==
    [][ /\ \A text \in SearchInputs :
              InputBusca(text) => /\ searchTimeout' = <<Trim(text)>>
                                  /\ net' = net
        /\ DebounceDispara =>
              /\ searchTimeout' = <<>>
              /\ net' = net (+) SetToBag({IF Len(searchTimeout[1]) >= 2
                                          THEN ReqBuscaTermo(searchTimeout[1])
                                          ELSE Req("loadVinis", 0)})
        /\ \A e \in BagToSet(net') :
              (e.op = "busca" /\ CopiesIn(e, net') > CopiesIn(e, net)
               /\ e.st = "sent" /\ e.stB = "sent") => Len(e.termo) >= 2 ]_vars

\* C13 witness: after two input events and one firing of the timer, the one
\* search in flight carries the trimmed text of the second event.
C13_Witness ==
    /\ uso = "busca"
    /\ gestos = 3
    /\ searchTimeout = <<>>
    /\ Pedidos(net, {"busca"}) = 1
    /\ Pedidos(net, {"loadVinis"}) = 0
    /\ \E e \in InFlight : e.op = "busca" /\ e.termo = <<"a", "b">>

\* ------------------------------------------------------------------ C14
\* The operations whose handler writes the grid after its await.
OpsDeLista == {"loadVinis", "reloadForm", "reloadDelete", "busca", "filtros"}
ListaEmCurso == \E e \in InFlight : e.op \in OpsDeLista

\* C14: whenever no list request is in flight, the grid shows exactly the
\* records of the last successfully completed load or search
\* (appState.currentVinis) restricted by the colour and the media selected in
\* the two filter controls. Stated for the states in which the grid shows
\* the outcome of a render (cards or the no-results message), which leaves
\* out the states that follow a failed operation.
C14_GridRefleteFiltros ==
    (~ListaEmCurso /\ (grid # <<>> \/ noResults)) =>
        grid = FiltrarVinis(appState.currentVinis.itens, filterCor, filterMidia)

\* ------------------------------------------------------------------ C15
\* An interpolation is inert when it cannot start a tag in the text of an
\* element and cannot close the double-quoted attribute value it stands in.
Inerte(seg) ==
    IF seg.ctx = "texto"
    THEN \A i \in DOMAIN seg.html : seg.html[i] # "<"
    ELSE \A i \in DOMAIN seg.html : seg.html[i] # "\""

\* C15: in the markup generated for a card, for the detail panel and for the
\* stats panel, every interpolated field value is inert: no '<' of a field
\* reaches the text of an element and no quote of a field reaches an
\* attribute value.
C15_MarkupInerte ==
    markupPc = "retornou" => \A i \in DOMAIN markup : Inerte(markup[i])

\* ------------------------------------------------------------------ C16
\* The handler that awaits e ends in its catch block.
FalhaDe(e) ==
    CASE e.op = "busca" ->
            ApiBuscarVinis(SubQuery(e.st, e.dados), SubQuery(e.stB, e.dadosB)).falhou
      [] e.op = "filtros" ->
            Falhou(e) \/ (e.st = "nulo" /\ (e.cor # "" \/ e.midia # ""))
      [] OTHER -> Falhou(e)

\* C16: when a list load, a search, a filter application or a statistics
\* fetch fails, an error is shown; unless another operation of the same kind
\* is still awaited, the loading indicator of the grid, and the loading
\* placeholder of the stats panel, are no longer displayed; and the submit
\* button is disabled only while a form submission is under way.
C16_FalhaVoltaAoRepouso ==
    [][ \A e \in InFlight :
          (e.op \in OpsDeLista \cup {"stats"} /\ FalhaDe(e) /\ Entrega(e)) =>
              /\ notification'.tipo = "error"
              /\ (e.op \in OpsDeLista /\ \A f \in BagToSet(net') : f.op \notin OpsDeLista)
                    => ~loading'
              /\ (e.op = "stats" /\ \A f \in BagToSet(net') : f.op # "stats")
                    => statsContainer' # StatsLoading
              /\ submitDisabled' =>
                    \E f \in BagToSet(net') : f.op \in {"criar", "atualizar", "reloadForm"}
      ]_vars

\* ------------------------------------------------------------------ C17
\* C17: api.compararPrensagens returns the two fetched records and a map over
\* exactly the fields artista, album, cor_prensagem, ano, selo and midia whose
\* entry is true exactly when the two records differ in that field; neither
\* the call nor the display of its result changes appState.
C17_MapaDeDiferencas ==
    [][ /\ CompararPrensagensCall =>
            /\ resultado'.vinil_a = vinilA
            /\ resultado'.vinil_b = vinilB
            /\ DOMAIN resultado'.diferencas = CamposComparados
            /\ \A f \in CamposComparados :
                  resultado'.diferencas[f] <=> (vinilA[f] # vinilB[f])
            /\ appState' = appState
        /\ ShowComparacaoResultado =>
            /\ comparacao' = resultado
            /\ appState' = appState
            /\ resultado' = resultado ]_vars

\* C17 witness: a result is displayed for two records that hold the same year
\* as a number and as a string and differ in nothing else.
C17_Witness ==
    /\ compararPc = "exibido"
    /\ vinilA.ano = Num("1979")
    /\ vinilB.ano = Str("1979")
    /\ comparacao.diferencas = [f \in CamposComparados |-> f = "ano"]

\* ------------------------------------------------------------------ C18
\* A file the claim accepts as cover: at most 5 MB and JPG, PNG, GIF or WEBP.
RasterAceito(file) ==
    /\ file.size <= TamanhoMaximo
    /\ file.grupo = "image"
    /\ file.sub \in {"jpeg", "png", "gif", "webp"}

\* C18: only a file of at most 5 MB and of type JPG, PNG, GIF or WEBP is kept
\* by the file input, read for the preview, shown as the preview or sent as
\* the capa of a payload; the selection of any other file shows an error and
\* leaves the file input empty.
C18_SoRasterAteCincoMB ==
    [][ /\ \A file \in Arquivos :
              (SelecionaArquivo(file) /\ ~RasterAceito(file)) =>
                  /\ notification'.tipo = "error"
                  /\ fileInput' = NenhumArquivo
        /\ \A file \in (leitores' \cup {fileInput', preview'.src, capaEnviada'})
                          \ {NenhumArquivo} : RasterAceito(file) ]_vars

\* ------------------------------------------------------------------ C19
\* The array the handler that awaits e passes to renderVinisGrid when it
\* does not end in its catch.
Renderizados(e) ==
    CASE e.op = "busca" ->
            ApiBuscarVinis(SubQuery(e.st, e.dados), SubQuery(e.stB, e.dadosB)).vinis
      [] e.op = "filtros" -> FiltrarVinis(ListaDe(e).itens, e.cor, e.midia)
      [] OTHER -> ListaDe(e).itens

\* C19: every renderVinisGrid(vinis) with a non-empty array, after a load, a
\* reload, a search or a filter application, leaves in the grid the cards of
\* the records of vinis, one each, in the order of vinis, and nothing else.
C19_GridSubstituido ==
    [][ /\ \A e \in InFlight :
              (e.op \in OpsDeLista /\ ~FalhaDe(e) /\ Len(Renderizados(e)) > 0
                 /\ Entrega(e)) => grid' = Renderizados(e)
        /\ \A cor \in {"", "Preto", "Colorido"}, midia \in MidiaOptions :
              (net' = net /\ MudaFiltro(cor, midia)
                 /\ Len(FiltrarVinis(appState.currentVinis.itens, cor, midia)) > 0)
              => grid' = FiltrarVinis(appState.currentVinis.itens, cor, midia)
      ]_vars

\* C19 witness: both records were rendered by the load, then the filter
\* rendered the one LP record over them.
C19_Witness ==
    /\ uso = "filtros"
    /\ net = EmptyBag
    /\ Len(appState.currentVinis.itens) = 2
    /\ filterMidia = "LP"
    /\ grid = <<Rec(1)>>

\* ------------------------------------------------------------------ C20
\* C20: at most one notification element is attached to the document at any
\* time, and every notification that is attached is detached later on, by
\* its own timers or by the next notification, with no action of the user.
C20_NotificacaoTransitoria ==
    /\ [](Cardinality(body) <= 1)
    /\ \A n \in 1..MaxNotifs : (n \in body) ~> (n \notin body)

\* C20 witness: two notifications were shown; the first is detached although
\* its timers are still pending, the second is attached.
C20_Witness ==
    /\ Len(notifs) = 2
    /\ body = {2}
    /\ notifs[1].timer = "4000"

\* ------------------------------------------------------------------ C21
\* C21: every response of a load or of a search that arrives is applied,
\* whatever else is outstanding: it replaces appState.currentVinis and the
\* grid, and the other requests in flight stay in flight. The result set
\* displayed is therefore that of the response that arrived last.
C21_UltimaRespostaVence ==
    [][ \A e \in InFlight :
          (e.op \in {"loadVinis", "busca"} /\ ~FalhaDe(e) /\ Entrega(e)) =>
              LET vinis == IF e.op = "busca" THEN Lista(Renderizados(e))
                           ELSE ListaDe(e)
              IN  /\ appState'.currentVinis = vinis
                  /\ grid' = RenderVinisGrid(vinis).grid
                  /\ net' = Retirar(e) ]_vars

\* C21 witness: the search, issued after the initial load, has arrived first
\* and is displayed; the answer to the initial load, a different result set,
\* is still to arrive.
C21_Witness ==
    /\ uso = "busca"
    /\ gestos = 2
    /\ appState.isSearching
    /\ grid = <<Rec(1)>>
    /\ \E e \in InFlight :
          e.op = "loadVinis" /\ e.st = "ok" /\ e.dados = <<Rec(1), Rec(2)>>
    /\ \A e \in InFlight : e.op # "busca"

\* ------------------------------------------------------------------ C22
\* C22: at most one debounce timer of the search box is pending in every
\* state: a timer superseded by a later input event is no longer there to
\* fire.
C22_UmTimerPendente == Len(searchTimeout) <= 1

\* C22 witness: two input events in a row, the timer of the second pending.
C22_Witness ==
    /\ uso = "busca"
    /\ gestos = 2
    /\ searchTimeout = << <<"a", "b">> >>
    /\ ~appState.isSearching

\* ------------------------------------------------------------------ C23
\* C23: while the form is open in edit mode for a record, no step other than
\* the add button or the opening of another edit form changes its edit id,
\* and its fields change only as the user fills them in; in particular the
\* cleanup of an earlier submission leaves the form as it is.
C23_EdicaoPersistente ==
    [][ ( /\ form.editId # 0
          /\ "form" \in modais
          /\ ~ClickAdicionar
          /\ ~(\E e \in InFlight : EntregaEditar(e)) )
        => /\ form'.editId = form.editId
           /\ \/ form'.campos = form.campos
              \/ \E campos \in FormInputs \cup {FormValido} : FillForm(campos)
      ]_vars

\* ------------------------------------------------------------------ C24
\* C24: whenever a list request (a load, a reload or a search) is in
\* flight, the loading indicator is visible.
C24_LoadingEnquantoEmCurso ==
    (\E e \in InFlight : e.op \in {"loadVinis", "reloadForm", "reloadDelete", "busca"})
        => loading

\* ------------------------------------------------------------------ C25
\* C25: once the search box holds less than two characters, its debounce
\* has fired, no list request remains in flight and no load has failed, the
\* load issued for the cleared box has completed and appState.isSearching
\* is false.
C25_IsSearchingSegueOrigem ==
    ( /\ Len(Trim(searchInput)) < MinBusca
      /\ searchTimeout = <<>>
      /\ ~ListaEmCurso
      /\ notification = NoNotification )
    => ~appState.isSearching

\* ------------------------------------------------------------------ C26
\* A submission is in progress: its create or update, or the reload that
\* follows it, is in flight.
EnvioEmCurso == \E e \in InFlight : e.op \in {"criar", "atualizar", "reloadForm"}

\* C26: the submit button is disabled and shows the saving label exactly
\* while a submission is in progress; after every outcome of handleFormSubmit
\* it is enabled again and shows the label of the page.
C26_BotaoSegueEnvio ==
    IF EnvioEmCurso
    THEN submitDisabled /\ submitLabel = LabelSalvando
    ELSE ~submitDisabled /\ submitLabel = LabelOriginal

\* C26 witness: a create or update has failed at the gateway and the button
\* is enabled again with the label of the page.
C26_Witness ==
    /\ notification = ShowError(MsgForm)
    /\ ~EnvioEmCurso
    /\ originalBtnText = LabelOriginal
    /\ ~submitDisabled
    /\ submitLabel = LabelOriginal

\* ------------------------------------------------------------------ C27
\* C27: when the create or update call of a submission fails, an error
\* notification is shown and the rest is left as it was: the modals, the
\* fields, the image preview and the edit id of the form, the list held by
\* appState and the grid; the failed request leaves and no other request is issued.
C27_FalhaDoEnvioSoNotifica ==
    [][ \A e \in InFlight :
          (e.op \in {"criar", "atualizar"} /\ Falhou(e) /\ EntregaSalvar(e)) =>
              /\ notification' = ShowError(MsgForm)
              /\ modais' = modais
              /\ form' = form
              /\ net' = Retirar(e)
              /\ appState' = appState
              /\ <<grid, loading, noResults>>' = <<grid, loading, noResults>>
      ]_vars

\* C27 witness: the update of the record under edit has failed; the form is
\* still open in edit mode with its fields and its image preview, and nothing
\* is in flight for it.
C27_Witness ==
    /\ notification = ShowError(MsgForm)
    /\ "form" \in modais
    /\ form.editId # 0
    /\ form.campos = FormDe(form.editId)
    /\ form.preview # ""
    /\ ~EnvioEmCurso
    /\ appState.currentVinis = Lista(<<Rec(1), Rec(2)>>)

\* ------------------------------------------------------------------ C28
\* C28: when the user declines the confirmation, handleDeleteVinil issues no
\* request, shows no notification, leaves the modals as they are and leaves
\* the list held by appState and the grid unchanged.
C28_RecusaSemEfeito ==
    [][ \A id \in Ids :
          ClickDelete(id, FALSE) =>
              /\ net' = net
              /\ notification' = notification
              /\ modais' = modais
              /\ detalhesContent' = detalhesContent
              /\ appState' = appState
              /\ <<grid, loading, noResults>>' = <<grid, loading, noResults>>
              /\ db' = db
      ]_vars

\* C28 witness: a confirmation was declined and no delete went through; the details
\* modal is still open on its record, nothing is in flight, nothing is
\* notified and the grid shows every record.
C28_Witness ==
    /\ recusado
    /\ removidos = {}
    /\ modais = {"detalhes"}
    /\ detalhesContent = DetalhesVinil(1)
    /\ net = EmptyBag
    /\ notification = NoNotification
    /\ grid = <<Rec(1), Rec(2)>>
    /\ db = Ids

\* ------------------------------------------------------------------ C29
\* A record passes the selected filters; an empty selection passes all.
PassaFiltros(v, cor, midia) ==
    /\ (cor = "" \/ CorPrensagem(v) = cor)
    /\ (midia = "" \/ Midia(v) = midia)

\* C29: when appState.currentVinis holds records, applyFilters leaves it as
\* it is and issues no request; the grid it renders holds exactly the held
\* records that pass the selected filters, and the whole held list when both
\* filters are cleared.
C29_FiltroSobreListaCarregada ==
    [][ \A cor \in {"", "Preto", "Colorido"}, midia \in MidiaOptions :
          ( /\ ~appState.currentVinis.nulo
            /\ Len(appState.currentVinis.itens) > 0
            /\ MudaFiltro(cor, midia) )
          => LET itens == appState.currentVinis.itens
             IN  /\ appState' = appState
                 /\ net' = net
                 /\ \A i \in DOMAIN grid' : \E j \in DOMAIN itens : grid'[i] = itens[j]
                 /\ \A j \in DOMAIN itens :
                       TemCard(grid', itens[j].id) <=> PassaFiltros(itens[j], cor, midia)
                 /\ Len(grid') =
                       Cardinality({j \in DOMAIN itens : PassaFiltros(itens[j], cor, midia)})
                 /\ noResults' = (grid' = <<>>)
                 /\ (cor = "" /\ midia = "") => grid' = itens
      ]_vars

\* C29 witness: the user has changed the filters twice and never searched;
\* both filters are cleared again and the grid shows the whole loaded list.
C29_Witness ==
    /\ uso = "filtros"
    /\ gestos = 2
    /\ searchInput = <<>>
    /\ filterCor = ""
    /\ filterMidia = ""
    /\ net = EmptyBag
    /\ notification = NoNotification
    /\ appState.currentVinis = Lista(<<Rec(1), Rec(2)>>)
    /\ grid = <<Rec(1), Rec(2)>>

\* ------------------------------------------------------------------ C30
\* C30: whenever the grid shows the outcome of a render, the mini statistics
\* are those of the rendered records: the total is the number of cards (0
\* when the no-results message shows), and the rarity count, the number of
\* distinct artists and the oldest year are those of the cards.
C30_MiniStatsDoGrid ==
    (~loading /\ (grid # <<>> \/ noResults))
        => IF grid = <<>>
           THEN miniStats.total = 0
           ELSE miniStats = MiniStatsDe(grid)

====
